---- MODULE Spec2Model ----
(***************************************************************************)
(* Model of the nolia server's /api/ask route: the fixed-window rate       *)
(* limiter (server/lib/rateLimiter.ts) and the route handler with its      *)
(* response cache, in-flight coalescer and anonymous profiles              *)
(* (server/routes.ts).                                                     *)
(*                                                                         *)
(* Node runs each request handler to its first real suspension point and   *)
(* each promise continuation chain (microtasks) to completion before the   *)
(* next I/O callback, so one action is one such event-loop turn.           *)
(***************************************************************************)
EXTENDS Integers, Sequences, FiniteSets, TLC

VARIABLES
    now,             \* Date.now(), in ms
    hits,            \* rateLimiter: hits Map, key -> [count, resetAtMs]
    askCache,        \* routes: askCache Map, in insertion order
    askCacheOps,     \* routes: askCacheOps
    askInFlight,     \* routes: askInFlight Map, key -> promise (run id)
    anonProfiles,    \* routes: anonProfiles Map, in insertion order
    anonProfileOps,  \* routes: anonProfileOps
    pending,         \* handlers suspended at an await, by request id
    runs,            \* askPipeline runs in progress, by run id
    out,             \* responses sent during the last event-loop turn
    arrived,         \* the request received in the last event-loop turn, if any
    nodeEnv,         \* process.env.NODE_ENV
    reqsInWindow,    \* history: per IP, the open window and the requests in it
    okCount,         \* history: per anon ID, the 200 responses sent to its requests
    pipe,            \* one askPipeline run: its locals, position and outbound calls
    io               \* one call of an outbound adapter: fetchPageText or
                     \* openRouterChatCompletion

vars == << now, hits, askCache, askCacheOps, askInFlight, anonProfiles,
           anonProfileOps, pending, runs, out, arrived, nodeEnv, reqsInWindow,
           okCount, pipe, io >>

----------------------------------------------------------------------------
\* Bounds of the model

MaxNow == 30000          \* the clock stops advancing here in Spec
MaxNowRL == 75000        \* the clock stops advancing here in SpecRL
MaxPending == 3          \* suspended handlers at any one time
MaxHitsSpec == 3         \* requests per IP and window in Spec
MaxOver == 2             \* requests beyond the limit per IP and window in SpecRL
CapIPs == 502            \* distinct client IPs in SpecCap
GrowIPs == 3             \* distinct client IPs in SpecGrow
MaxHitsGrow == 2         \* requests per IP and window in SpecGrow
MaxNowGrow == 180000     \* the clock stops advancing here in SpecGrow
MaxHitsProf == 3         \* requests in SpecProf
ProfReturning == 2       \* returning visitors in SpecProf
ProfNew == 2             \* new visitors in SpecProf
RequestGapMs == 6000     \* time between the requests before SpecProf starts
MaxCiteNumber == 9        \* the largest n of a [n] mark in the answers of SpecPipe
MaxOverStage == 1        \* requests beyond the limit per window in SpecStage
MaxPendingStage == 2     \* suspended handlers at any one time in SpecStage
MaxHitsPart == 2         \* requests per IP and window in SpecPart and SpecAsk
MaxItems == 4            \* items given to sanitizeFollowUps in SpecCalls
MaxRedirects == 2        \* redirects followed by one fetch in SpecIo

\* Program constants

RLWindowMs == 60000      \* askRateLimit: windowMs
RLMax == 10              \* askRateLimit: max
AskCacheTtlMs == 30000   \* expiresAtMs: Date.now() + 30_000
AskCachePruneEvery == 50 \* askCacheOps % 50
AskCachePruneSize == 200 \* askCache.size < 200
AskCacheMaxEntries == 500
AnonPruneEvery == 50
AnonPruneSize == 2000
AnonStaleDays == 30       \* staleMs = 30 * 24 * 60 * 60 * 1000
MsPerDay == 86400000      \* 24 * 60 * 60 * 1000
AnonMaxEntries == 5000
MaxQueries == 3           \* if (queries.length >= 3) break
FetchMaxBytes == 1000000   \* fetchPageText({ maxBytes: 1_000_000 })
MaxAttempts == 2          \* openRouterChatCompletion: maxAttempts
RetryAfterCapMs == 10000  \* getRetryAfterMs: Math.min(10_000, seconds * 1000)
DefaultBackoffMs == 350   \* sleep(350), sleep(retryAfterMs ?? 350)
MalformedBackoffMs == 200 \* sleep(200)

None == "none"           \* undefined

----------------------------------------------------------------------------
\* Arithmetic helpers (Math.max, Math.ceil of a quotient)

MathMax(a, b) == IF a >= b THEN a ELSE b

\* Math.ceil(n / d) for d > 0
CeilDiv(n, d) == IF n >= 0 THEN (n + d - 1) \div d ELSE -((-n) \div d)

----------------------------------------------------------------------------
\* JavaScript Map, as a sequence of entries [k, v] in insertion order

MapKeys(m) == { m[i].k : i \in 1..Len(m) }

MapHas(m, key) == key \in MapKeys(m)

\* Map.prototype.get, for a key the map has
MapGet(m, key) == (CHOOSE e \in { m[i] : i \in 1..Len(m) } : e.k = key).v

\* Map.prototype.set: an existing key keeps its position
MapSet(m, key, val) ==
    IF MapHas(m, key)
    THEN [ i \in 1..Len(m) |-> IF m[i].k = key THEN [k |-> key, v |-> val] ELSE m[i] ]
    ELSE Append(m, [k |-> key, v |-> val])

MapDelete(m, key) == SelectSeq(m, LAMBDA e : e.k # key)

\* the hits Map: its order is never observed, so it is a function
FnSet(f, key, val) ==
    [ x \in DOMAIN f \cup {key} |-> IF x = key THEN val ELSE f[x] ]

FnDelete(f, key) == [ x \in DOMAIN f \ {key} |-> f[x] ]

EmptyFn == [ x \in {} |-> None ]

----------------------------------------------------------------------------
\* server/lib/rateLimiter.ts

RLKey(ip) == << "ask", ip >>

RLHeaders(limit, remaining, reset) ==
    ("X-RateLimit-Limit" :> limit) @@
    ("X-RateLimit-Remaining" :> remaining) @@
    ("X-RateLimit-Reset" :> reset)

TooManyRequests == "Too Many Requests, please try again later"

\* if (!existing || existing.resetAtMs <= now)
RLWindowOver_StrictlyAfter(h, key, t) ==
    IF key \notin DOMAIN h THEN TRUE ELSE h[key].resetAtMs < t

RLWindowOver(h, key, t) ==
    IF key \notin DOMAIN h THEN TRUE ELSE h[key].resetAtMs <= t

\* Math.max(0, options.max - count)
RLRemaining_NotFloored(count) == RLMax - count

RLRemaining(count) == MathMax(0, RLMax - count)

\* if (existing.count > options.max)
RLExceeded_AtMax(count) == count >= RLMax

RLExceeded(count) == count > RLMax

\* a rejected request starts a new window
RateLimiter_RejectionExtendsWindow(h, ip, t) ==
    LET key == RLKey(ip) IN
    IF RLWindowOver(h, key, t)
    THEN [ hits |-> FnSet(h, key, [count |-> 1, resetAtMs |-> t + RLWindowMs]),
           next |-> TRUE, status |-> 0,
           headers |-> RLHeaders(RLMax, RLRemaining(1),
                                 CeilDiv(t + RLWindowMs, 1000)) ]
    ELSE LET count == h[key].count + 1
             resetAtMs == IF RLExceeded(count) THEN t + RLWindowMs ELSE h[key].resetAtMs
             hdrs == RLHeaders(RLMax, RLRemaining(count), CeilDiv(resetAtMs, 1000))
         IN [ hits |-> FnSet(h, key, [count |-> count, resetAtMs |-> resetAtMs]),
              next |-> ~RLExceeded(count), status |-> IF RLExceeded(count) THEN 429 ELSE 0,
              headers |-> IF RLExceeded(count)
                          THEN hdrs @@ ("Retry-After" :> MathMax(1, CeilDiv(resetAtMs - t, 1000)))
                          ELSE hdrs ]

\* One call of the middleware for a request from ip at time t.
\* next = TRUE: next() was called; else status 429 was sent.
RateLimiter(h, ip, t) ==
    LET key == RLKey(ip) IN
    IF RLWindowOver(h, key, t)
    THEN [ hits |-> FnSet(h, key, [count |-> 1, resetAtMs |-> t + RLWindowMs]),
           next |-> TRUE, status |-> 0,
           headers |-> RLHeaders(RLMax, RLRemaining(1),
                                 CeilDiv(t + RLWindowMs, 1000)) ]
    ELSE LET count == h[key].count + 1
             resetAtMs == h[key].resetAtMs
             hdrs == RLHeaders(RLMax, RLRemaining(count), CeilDiv(resetAtMs, 1000))
         IN IF RLExceeded(count)
            THEN [ hits |-> FnSet(h, key, [count |-> count, resetAtMs |-> resetAtMs]),
                   next |-> FALSE, status |-> 429,
                   headers |-> hdrs @@ ("Retry-After" :>
                       MathMax(1, CeilDiv(resetAtMs - t, 1000))) ]
            ELSE [ hits |-> FnSet(h, key, [count |-> count, resetAtMs |-> resetAtMs]),
                   next |-> TRUE, status |-> 0, headers |-> hdrs ]

----------------------------------------------------------------------------
\* server/validators/ask.ts: askRequestSchema.parse
\* A raw body is a record [question, language, style]; questions are tokens.

\* String.prototype.trim on the question tokens of the model
Trim(q) ==
    CASE q = " clock " -> "clock"
      [] q = "   "     -> ""
      [] OTHER         -> q

AskLanguages == { "auto", "en", "hi" }
AskStyles == { "Concise", "Balanced", "Detailed", "Creative" }

AskRequestParse(raw) ==
    IF /\ Trim(raw.question) # ""
       /\ raw.language \in AskLanguages \cup {None}
       /\ raw.style \in AskStyles \cup {None}
    THEN [ ok |-> TRUE,
           input |-> [ question |-> Trim(raw.question),
                       language |-> raw.language, style |-> raw.style ] ]
    ELSE [ ok |-> FALSE, input |-> raw ]

----------------------------------------------------------------------------
\* server/routes.ts: anonymous profiles

\* header tokens of the model: "bad id!" has characters outside the class
SafeAnonId(value) ==
    CASE value = None      -> None
      [] value = " anonA " -> "anonA"
      [] value = "   "     -> None
      [] value = "bad id!" -> None
      [] OTHER             -> value

InferTopic(question) ==
    CASE question = "stock" -> "finance"
      [] question = "python" -> "technology"
      [] OTHER -> None

UpsertAnonProfile(profiles, anonId, input, t) ==
    LET profile == IF MapHas(profiles, anonId) THEN MapGet(profiles, anonId)
                   ELSE [ anonId |-> anonId, createdAtMs |-> t, lastSeenAtMs |-> t,
                          askCount |-> 0, lastLanguage |-> None, lastStyle |-> None,
                          topicCounts |-> EmptyFn ]
        topic == InferTopic(input.question)
        counts == profile.topicCounts
    IN MapSet(profiles, anonId,
         [ profile EXCEPT
             !.lastSeenAtMs = t,
             !.askCount = profile.askCount + 1,
             !.lastLanguage = IF input.language # None THEN input.language ELSE @,
             !.lastStyle = IF input.style # None THEN input.style ELSE @,
             !.topicCounts = IF topic = None THEN counts
                             ELSE FnSet(counts, topic,
                                    (IF topic \in DOMAIN counts THEN counts[topic] ELSE 0) + 1) ])

\* v.lastSeenAtMs < now - staleMs, with staleMs = AnonStaleDays * MsPerDay
\* (evaluated by days and remainder: the product exceeds 32 bits)
IsStale(lastSeenAtMs, t) ==
    LET age == t - lastSeenAtMs
    IN /\ age > 0
       /\ \/ age \div MsPerDay > AnonStaleDays
          \/ age \div MsPerDay = AnonStaleDays /\ age % MsPerDay > 0

\* ops is anonProfileOps after its increment
MaybePruneAnonProfiles(profiles, ops, t) ==
    IF ops % AnonPruneEvery # 0 /\ Len(profiles) < AnonPruneSize
    THEN profiles
    ELSE LET fresh == SelectSeq(profiles, LAMBDA e : ~IsStale(e.v.lastSeenAtMs, t))
         IN IF Len(fresh) <= AnonMaxEntries THEN fresh
            ELSE SubSeq(fresh, Len(fresh) - AnonMaxEntries + 1, Len(fresh))

----------------------------------------------------------------------------
\* server/routes.ts: response cache and coalescer

\* ops is askCacheOps after its increment
MaybePruneAskCache(cache, ops, t) ==
    IF ops % AskCachePruneEvery # 0 /\ Len(cache) < AskCachePruneSize
    THEN cache
    ELSE LET live == SelectSeq(cache, LAMBDA e : ~(e.v.expiresAtMs <= t))
         IN IF Len(live) <= AskCacheMaxEntries THEN live
            ELSE SubSeq(live, Len(live) - AskCacheMaxEntries + 1, Len(live))

\* sha256 of JSON.stringify({ip, body}), taken as injective
StableAskCacheKey(partition, body) == << partition, body >>

\* const cached = askCache.get(key); if (cached && cached.expiresAtMs > now)
\* The entry that is served, as a set: empty when none is.
CacheLookup_ServeAtExpiry(cache, key, t) ==
    IF MapHas(cache, key) /\ MapGet(cache, key).expiresAtMs >= t
    THEN { MapGet(cache, key) } ELSE {}

CacheLookup(cache, key, t) ==
    IF MapHas(cache, key) /\ MapGet(cache, key).expiresAtMs > t
    THEN { MapGet(cache, key) } ELSE {}

\* const existingInFlight = askInFlight.get(key)
\* The promise found, as a set: empty when undefined.
InFlightGet_Ignore(inflight, key) == {}

InFlightGet(inflight, key) ==
    IF key \in DOMAIN inflight THEN { inflight[key] } ELSE {}

\* askCache.set(key, { value: result, expiresAtMs: Date.now() + 30_000 })
\* runs only when askPipeline returned
CacheStore_AlsoOnFailure(cache, key, outcome, t) ==
    MapSet(cache, key, [ value |-> outcome.value,
                         expiresAtMs |-> t + AskCacheTtlMs ])

\* only an answer with citations is stored
CacheStore_OnlyCited(cache, key, outcome, t) ==
    IF outcome.ok /\ outcome.value.citations # << >>
    THEN MapSet(cache, key, [ value |-> outcome.value,
                              expiresAtMs |-> t + AskCacheTtlMs ])
    ELSE cache

CacheStore(cache, key, outcome, t) ==
    IF outcome.ok
    THEN MapSet(cache, key, [ value |-> outcome.value,
                              expiresAtMs |-> t + AskCacheTtlMs ])
    ELSE cache

\* finally { askInFlight.delete(key) }
InFlightRelease_OnSuccessOnly(inflight, key, outcome) ==
    IF outcome.ok THEN FnDelete(inflight, key) ELSE inflight

InFlightRelease(inflight, key, outcome) == FnDelete(inflight, key)

----------------------------------------------------------------------------
\* server/index.ts: error middleware
\* An error is [status, message]; status 0 is an error without a status.

OkBody(value) == [ value |-> value, message |-> "", requestId |-> 0 ]

ErrBody(message, rid) == [ value |-> None, message |-> message, requestId |-> rid ]

ErrorResponse(err, rid, env) ==
    LET status == IF err.status # 0 THEN err.status ELSE 500
        message == IF env = "production" /\ status >= 500
                   THEN "Internal Server Error"
                   ELSE IF err.message # "" THEN err.message
                        ELSE "Internal Server Error"
    IN [ status |-> status, body |-> ErrBody(message, rid) ]

\* what a handler that awaited the settled promise sends
AwaitedResponse_FollowerSwallowsError(outcome, role, rid, env) ==
    IF outcome.ok \/ role = "follower"
    THEN [ status |-> 200, body |-> OkBody(outcome.value) ]
    ELSE ErrorResponse(outcome.error, rid, env)

AwaitedResponse(outcome, role, rid, env) ==
    IF outcome.ok
    THEN [ status |-> 200, body |-> OkBody(outcome.value) ]
    ELSE ErrorResponse(outcome.error, rid, env)

----------------------------------------------------------------------------
\* The /api/ask route: app.post("/api/ask", askRateLimit, handler)

\* the request id of a new request: unused by every suspended handler
FreeId == CHOOSE i \in 1..(Cardinality(DOMAIN pending) + 1) : i \notin DOMAIN pending

\* const cachePartition = anonId ?? ip
CachePartition_IpOnly(ip, anonHdr) == ip

CachePartition(ip, anonHdr) ==
    IF SafeAnonId(anonHdr) # None THEN SafeAnonId(anonHdr) ELSE ip

\* the cache key of a request with a valid body
KeyOf(ip, anonHdr, raw) ==
    StableAskCacheKey(CachePartition(ip, anonHdr), AskRequestParse(raw).input)

InvalidBody == [ status |-> 400, message |-> "question: Required" ]

\* history: the request is the k-th of the window that opened at start;
\* prev is the number of requests of the IP's window before that
CountInWindow(g, ip, t) ==
    IF ip \notin DOMAIN g
    THEN FnSet(g, ip, [start |-> t, k |-> 1, prev |-> 0])
    ELSE IF t >= g[ip].start + RLWindowMs
    THEN FnSet(g, ip, [start |-> t, k |-> 1, prev |-> g[ip].k])
    ELSE FnSet(g, ip, [start |-> g[ip].start, k |-> g[ip].k + 1, prev |-> g[ip].prev])

\* rateLimiter ends the chain with `return res.status(429).json(...)`; the
\* handler runs only when the limiter calls next()
HandlerRuns_AfterRejection(rl) == TRUE

HandlerRuns(rl) == rl.next

\* history: the responses sent this turn, counted per valid anon ID when 200
CountOk(g, responses) ==
    LET ids == { SafeAnonId(x.anon) : x \in { y \in responses : y.status = 200 } } \ { None }
    IN [ a \in DOMAIN g \cup ids |->
           (IF a \in DOMAIN g THEN g[a] ELSE 0)
           + Cardinality({ x \in responses : x.status = 200 /\ SafeAnonId(x.anon) = a }) ]

\* One request from ip with header x-nolia-anon-id = anonHdr and body raw:
\* the rate limiter, then the handler up to its first await. The locals of the
\* askPipeline run a leader starts (pipe) are the caller's to say.
Request(ip, anonHdr, raw) ==
    LET rid == FreeId
        rl == RateLimiter(hits, ip, now)
        parsed == AskRequestParse(raw)
        anonId == SafeAnonId(anonHdr)
        profiles1 == IF anonId # None
                     THEN UpsertAnonProfile(anonProfiles, anonId, parsed.input, now)
                     ELSE anonProfiles
        cache1 == MaybePruneAskCache(askCache, askCacheOps + 1, now)
        profiles2 == MaybePruneAnonProfiles(profiles1, anonProfileOps + 1, now)
        key == KeyOf(ip, anonHdr, raw)
        cached == CacheLookup(cache1, key, now)
        existingInFlight == InFlightGet(askInFlight, key)
        kth == CountInWindow(reqsInWindow, ip, now)[ip].k
        Arrival(via) == [ rid |-> rid, ip |-> ip, anon |-> anonHdr, raw |-> raw,
                          next |-> rl.next, via |-> via, headers |-> rl.headers,
                          k |-> kth ]
        Response(status, body, via) ==
            [ rid |-> rid, ip |-> ip, anon |-> anonHdr, raw |-> raw,
              status |-> status, headers |-> rl.headers, body |-> body,
              via |-> via, promise |-> 0, k |-> kth ]
        Suspended(role, promise) ==
            [ ip |-> ip, anon |-> anonHdr, raw |-> raw, role |-> role,
              promise |-> promise, headers |-> rl.headers, k |-> kth ]
    IN /\ hits' = rl.hits
       /\ reqsInWindow' = CountInWindow(reqsInWindow, ip, now)
       /\ UNCHANGED << now, nodeEnv, io >>
       /\ IF ~HandlerRuns(rl)
          THEN /\ out' = { Response(429, ErrBody(TooManyRequests, rid), "limiter") }
               /\ arrived' = { Arrival("limiter") }
               /\ UNCHANGED << askCache, askCacheOps, askInFlight, anonProfiles,
                               anonProfileOps, pending, runs >>
          ELSE IF ~parsed.ok
          THEN /\ out' = { LET e == ErrorResponse(InvalidBody, rid, nodeEnv)
                           IN Response(e.status, e.body, "invalid") }
               /\ arrived' = { Arrival("invalid") }
               /\ UNCHANGED << askCache, askCacheOps, askInFlight, anonProfiles,
                               anonProfileOps, pending, runs >>
          ELSE /\ anonProfiles' = profiles2
               /\ anonProfileOps' = anonProfileOps + 1
               /\ askCache' = cache1
               /\ askCacheOps' = askCacheOps + 1
               /\ IF cached # {}
                  THEN /\ out' = { Response(200, OkBody(e.value), "cache") : e \in cached }
                       /\ arrived' = { Arrival("cache") }
                       /\ UNCHANGED << askInFlight, pending, runs >>
                  ELSE IF existingInFlight # {}
                  THEN /\ pending' = FnSet(pending, rid,
                              Suspended("follower", CHOOSE p \in existingInFlight : TRUE))
                       /\ out' = {}
                       /\ arrived' = { Arrival("follower") }
                       /\ UNCHANGED << askInFlight, runs >>
                  ELSE /\ runs' = FnSet(runs, rid, [ key |-> key, input |-> parsed.input ])
                       /\ askInFlight' = FnSet(askInFlight, key, rid)
                       /\ pending' = FnSet(pending, rid, Suspended("leader", rid))
                       /\ out' = {}
                       /\ arrived' = { Arrival("leader") }
       /\ okCount' = CountOk(okCount, out')

\* askPipeline run r settles with outcome [ok, value, error]; the promise's
\* continuations run: the cache store, then every awaiting handler. What
\* becomes of the run's locals (pipe) is the caller's to say.
PipelineSettles(r, outcome) ==
    LET key == runs[r].key
        waiters == { i \in DOMAIN pending : pending[i].promise = r }
    IN /\ askCache' = CacheStore(askCache, key, outcome, now)
       /\ askInFlight' = InFlightRelease(askInFlight, key, outcome)
       /\ runs' = FnDelete(runs, r)
       /\ pending' = [ i \in DOMAIN pending \ waiters |-> pending[i] ]
       /\ out' = { LET w == pending[i]
                       a == AwaitedResponse(outcome, w.role, i, nodeEnv)
                   IN [ rid |-> i, ip |-> w.ip, anon |-> w.anon, raw |-> w.raw,
                        status |-> a.status, headers |-> w.headers, body |-> a.body,
                        via |-> w.role, promise |-> r, k |-> w.k ] : i \in waiters }
       /\ arrived' = {}
       /\ okCount' = CountOk(okCount, out')
       /\ UNCHANGED << now, hits, askCacheOps, anonProfiles, anonProfileOps,
                       nodeEnv, reqsInWindow, io >>

\* time passes
Advance(d) ==
    /\ now' = now + d
    /\ out' = {}
    /\ arrived' = {}
    /\ UNCHANGED << hits, askCache, askCacheOps, askInFlight, anonProfiles,
                    anonProfileOps, pending, runs, nodeEnv, reqsInWindow, okCount,
                    pipe, io >>

\* the IP has sent fewer than cap requests in its open window
HitsBelow(ip, cap) ==
    IF RLKey(ip) \notin DOMAIN hits THEN TRUE
    ELSE hits[RLKey(ip)].resetAtMs <= now \/ hits[RLKey(ip)].count < cap

RawBody(question) == [ question |-> question, language |-> None, style |-> None ]

NoError == [ status |-> 0, message |-> "" ]

Succeeds(value) == [ ok |-> TRUE, value |-> value, error |-> NoError ]

Fails(status, message) ==
    [ ok |-> FALSE, value |-> None, error |-> [ status |-> status, message |-> message ] ]

\* what an askPipeline run can end with: a result, an HttpError, any other error
Outcomes == { Succeeds("answer1"), Succeeds("answer2"),
              Fails(502, "LLM request failed"), Fails(0, "fetch failed") }

Init ==
    /\ now = 0
    /\ hits = EmptyFn
    /\ askCache = << >>
    /\ askCacheOps = 0
    /\ askInFlight = EmptyFn
    /\ anonProfiles = << >>
    /\ anonProfileOps = 0
    /\ pending = EmptyFn
    /\ runs = EmptyFn
    /\ out = {}
    /\ arrived = {}
    /\ nodeEnv \in { "production", "development" }
    /\ reqsInWindow = EmptyFn
    /\ okCount = EmptyFn
    /\ pipe = None
    /\ io = None

----------------------------------------------------------------------------
\* Spec: the route under concurrent requests of a few clients

IPs == { "10.0.0.1", "10.0.0.2" }

Arrive ==
    \E ip \in { "10.0.0.1" }, anonHdr \in { None, "anonA" },
       raw \in { RawBody("clock"), RawBody(" clock "), RawBody("   ") } :
        /\ Cardinality(DOMAIN pending) < MaxPending
        /\ HitsBelow(ip, MaxHitsSpec)
        /\ Request(ip, anonHdr, raw)
        /\ UNCHANGED pipe

Settle == \E r \in DOMAIN runs, outcome \in Outcomes : PipelineSettles(r, outcome) /\ UNCHANGED pipe

Tick == \E d \in { 15000 } : now + d <= MaxNow /\ Advance(d)

Next == Arrive \/ Settle \/ Tick

Spec == Init /\ [][Next]_vars

----------------------------------------------------------------------------
\* SpecRL: the rate limiter over whole windows, past the limit and past resets.
\* The bodies fail validation, so an admitted request ends in the handler's 400.


RLArrive ==
    \E ip \in IPs, raw \in { RawBody("   "), RawBody("") } :
        /\ Cardinality(DOMAIN pending) < MaxPending
        /\ HitsBelow(ip, RLMax + MaxOver)
        /\ Request(ip, None, raw)
        /\ UNCHANGED pipe

RLTick == \E d \in { 29500, 30000 } : now + d <= MaxNowRL /\ Advance(d)

NextRL == RLArrive \/ RLTick

SpecRL == Init /\ [][NextRL]_vars

----------------------------------------------------------------------------
\* Rate limiter properties (SpecRL)

HasRateLimitHeaders(h) ==
    { "X-RateLimit-Limit", "X-RateLimit-Remaining", "X-RateLimit-Reset" } \subseteq DOMAIN h

\* C2: within one window of a key the k-th request is passed on to the handler
\* iff k <= max; every later one is answered 429 with a Retry-After header
\* and the handler does not see it.
C2_AdmitIffWithinMax ==
    \A a \in arrived :
        /\ a.next <=> a.k <= RLMax
        /\ a.next => /\ a.via # "limiter"
                     /\ \A r \in out : r.status # 429 /\ "Retry-After" \notin DOMAIN r.headers
        /\ ~a.next => /\ a.via = "limiter"
                      /\ \E r \in out : /\ r.rid = a.rid
                                        /\ r.status = 429
                                        /\ "Retry-After" \in DOMAIN r.headers
                                        /\ r.headers["Retry-After"] >= 1

\* the (max+1)-th request of a window has just been rejected
C2_Witness ==
    \E a \in arrived : a.k = RLMax + 1 /\ ~a.next /\ \E r \in out : r.status = 429

\* C3: every response that went through the limiter, 429 included, carries the
\* three X-RateLimit headers, and Remaining = max(0, limit - count), count being
\* the key's counter once this request was counted.
C3_HeadersOnEveryResponse ==
    /\ \A r \in out :
          /\ HasRateLimitHeaders(r.headers)
          /\ r.headers["X-RateLimit-Limit"] = RLMax
          /\ r.headers["X-RateLimit-Remaining"] = MathMax(0, RLMax - r.k)
    /\ \A a \in arrived :
          /\ hits[RLKey(a.ip)].count = a.k
          /\ HasRateLimitHeaders(a.headers)
          /\ a.headers["X-RateLimit-Remaining"] = MathMax(0, RLMax - hits[RLKey(a.ip)].count)

\* a 429 response of a request beyond max + 1: limit - count is negative
C3_Witness ==
    \E r \in out : r.status = 429 /\ r.k = RLMax + 2
                   /\ r.headers["X-RateLimit-Remaining"] = 0

\* C4: a request for a key without a counter, or whose window has elapsed
\* (resetAtMs <= now), makes the counter {count: 1, resetAtMs: now + windowMs}
\* and is admitted, whatever the count of the window before.
C4_WindowReset ==
    \A a \in arrived :
        a.k = 1 => /\ a.next
                   /\ hits[RLKey(a.ip)] = [ count |-> 1, resetAtMs |-> now + RLWindowMs ]

\* a key rejected in its previous window is admitted at the very instant
\* that window ends
C4_Witness ==
    \E a \in arrived :
        /\ a.k = 1 /\ a.next
        /\ reqsInWindow[a.ip].prev > RLMax
        /\ now = reqsInWindow[a.ip].start
        /\ hits[RLKey(a.ip)].resetAtMs = now + RLWindowMs
        /\ now \in { 60000 }

----------------------------------------------------------------------------
\* Cache and coalescer properties (Spec)

\* the cache key of a recorded arrival or response
KeyOfRec(x) == KeyOf(x.ip, x.anon, x.raw)

Waiters(r) == { i \in DOMAIN pending : pending[i].promise = r }

Entries(cache) == { cache[i] : i \in 1..Len(cache) }

\* C1: requests with the same cache key that arrive while a run for the key is
\* in progress start no second run: no two runs in progress have the same key,
\* and a request that found the in-flight promise awaits that key's run.
C1_OneRunPerKey ==
    /\ \A r1, r2 \in DOMAIN runs : runs[r1].key = runs[r2].key => r1 = r2
    /\ \A a \in arrived :
          a.via = "follower" =>
              /\ a.rid \notin DOMAIN runs
              /\ pending[a.rid].promise \in DOMAIN runs
              /\ runs[pending[a.rid].promise].key = KeyOfRec(a)

\* a leader and two followers wait on one run; the followers' raw bodies
\* differ and validate to the same body
C1_Witness ==
    \E r \in DOMAIN runs :
        /\ Cardinality(Waiters(r)) >= 3
        /\ \E i, j \in Waiters(r) : pending[i].raw # pending[j].raw

\* C5: a request whose key has an entry with expiresAtMs > now at the lookup
\* is answered with exactly the stored value and starts no run; an entry
\* with expiresAtMs <= now is not served, pruned or not; every entry stored
\* expires 30 s after the time it was stored.
C5_Step ==
    /\ \A a \in arrived' :
          (a.next /\ AskRequestParse(a.raw).ok) =>
              LET key == KeyOfRec(a) IN
              /\ (MapHas(askCache', key) /\ MapGet(askCache', key).expiresAtMs > now)
                    => /\ a.via = "cache"
                       /\ runs' = runs /\ pending' = pending /\ askInFlight' = askInFlight
                       /\ \E r \in out' :
                             /\ r.rid = a.rid /\ r.status = 200
                             /\ r.body = OkBody(MapGet(askCache', key).value)
              /\ (MapHas(askCache, key) /\ MapGet(askCache, key).expiresAtMs <= now)
                    => a.via \in { "leader", "follower" }
              /\ a.via = "cache"
                    => /\ MapHas(askCache, key)
                       /\ MapGet(askCache, key).expiresAtMs > now
    /\ \A e \in Entries(askCache') \ Entries(askCache) :
          e.v.expiresAtMs = now + AskCacheTtlMs

C5_CacheHit == [][C5_Step]_vars

\* a request is served a stored value some time after it was stored
C5_Witness ==
    \E a \in arrived :
        /\ a.via = "cache"
        /\ MapGet(askCache, KeyOfRec(a)).expiresAtMs < now + AskCacheTtlMs
        /\ \E r \in out : r.rid = a.rid /\ r.status = 200
                          /\ r.body.value = MapGet(askCache, KeyOfRec(a)).value

\* C6: a failed run leaves askCache as it was, so the next identical request
\* finds nothing to serve; an entry is written exactly when a run returns a
\* result, and it holds that result.
C6_Step ==
    /\ \A r \in DOMAIN runs \ DOMAIN runs' :
          LET key == runs[r].key IN
          \A l \in out' :
              l.rid = r =>
                  IF l.status = 200
                  THEN /\ MapHas(askCache', key)
                       /\ MapGet(askCache', key) =
                             [ value |-> l.body.value, expiresAtMs |-> now + AskCacheTtlMs ]
                  ELSE /\ askCache' = askCache
                       /\ CacheLookup(askCache', key, now) = {}
    /\ \A e \in Entries(askCache') \ Entries(askCache) :
          \E r \in DOMAIN runs \ DOMAIN runs' :
              /\ runs[r].key = e.k
              /\ \E l \in out' : l.rid = r /\ l.status = 200 /\ l.body.value = e.v.value

C6_CacheOnlyOnSuccess == [][C6_Step]_vars

\* a run has just failed while the cache holds an older, expired entry for its key
C6_Witness ==
    \E l \in out :
        /\ l.via = "leader" /\ l.status >= 500
        /\ MapHas(askCache, KeyOfRec(l))
        /\ MapGet(askCache, KeyOfRec(l)).expiresAtMs <= now

\* C7: askInFlight holds a key exactly while the run registered under it is
\* in progress; once the run has settled, with a result or an error, the key
\* is gone.
C7_InFlightOnlyWhileRunning ==
    /\ DOMAIN askInFlight = { runs[r].key : r \in DOMAIN runs }
    /\ \A k \in DOMAIN askInFlight :
          /\ askInFlight[k] \in DOMAIN runs
          /\ runs[askInFlight[k]].key = k

\* a run has just failed and its key is no longer in flight
C7_Witness ==
    \E l \in out :
        /\ l.via = "leader" /\ l.status = 502
        /\ KeyOfRec(l) \notin DOMAIN askInFlight
        /\ \E f \in out : f.via = "follower" /\ f.promise = l.promise

\* C8: a request that awaited an in-flight promise answers as the leader of
\* that promise does: the same value on success, the same error on failure.
C8_FollowersShareOutcome ==
    \A f \in out :
        f.via = "follower" =>
            \E l \in out :
                /\ l.via = "leader"
                /\ l.promise = f.promise
                /\ l.rid = f.promise
                /\ KeyOfRec(l) = KeyOfRec(f)
                /\ l.status = f.status
                /\ l.body.value = f.body.value
                /\ l.body.message = f.body.message

\* two followers have just been answered with their leader's result
C8_Witness ==
    \E l \in out :
        /\ l.via = "leader" /\ l.status = 200
        /\ Cardinality({ f \in out : f.via = "follower" /\ f.promise = l.rid
                                     /\ f.body.value = l.body.value }) = 2

----------------------------------------------------------------------------
\* SpecCap: ever new clients (numbered IPs) ask the same question one after
\* the other, so every request has a cache key of its own.

CapClients == { n \in 1..CapIPs : n = Cardinality(DOMAIN hits) + 1 }

CapArrive ==
    \E ip \in CapClients, raw \in { RawBody("clock"), RawBody(" clock ") } :
        /\ DOMAIN pending = {}
        /\ Request(ip, None, raw)
        /\ UNCHANGED pipe

CapSettle == \E r \in DOMAIN runs : PipelineSettles(r, Succeeds("answer1")) /\ UNCHANGED pipe

NextCap == CapArrive \/ CapSettle

SpecCap == Init /\ [][NextCap]_vars

----------------------------------------------------------------------------
\* SpecGrow: a few clients over several rate-limit windows; the bodies fail
\* validation.


GrowArrive ==
    \E ip \in 1..GrowIPs :
        /\ HitsBelow(ip, MaxHitsGrow)
        /\ Request(ip, None, RawBody(""))
        /\ UNCHANGED pipe

GrowTick == \E d \in { 60000 } : now + d <= MaxNowGrow /\ Advance(d)

NextGrow == GrowArrive \/ GrowTick

SpecGrow == Init /\ [][NextGrow]_vars

----------------------------------------------------------------------------
\* Capacity properties

\* C9: askCache holds at most 500 entries in every reachable state.
C9_CacheAtMostMaxEntries == Len(askCache) <= AskCacheMaxEntries

\* C10: the hits table stays bounded because counters whose window has
\* expired are evicted: once a request has been handled, the table holds no
\* counter whose window ended a whole window or more ago.
C10_ExpiredCountersEvicted ==
    arrived # {} => \A k \in DOMAIN hits : hits[k].resetAtMs + RLWindowMs > now

----------------------------------------------------------------------------
\* Anonymous profiles and the outcome of the requests that bump them

\* the 200 responses sent so far to requests carrying anon ID a
OkResponses(a) == IF a \in DOMAIN okCount THEN okCount[a] ELSE 0

\* C12: once no request carrying an anon ID is still being answered, the
\* askCount of that ID's profile equals the number of its requests that were
\* answered with 200: a request whose pipeline run fails does not bump it.
C12_AskCountCountsSuccesses ==
    \A i \in 1..Len(anonProfiles) :
        LET a == anonProfiles[i].k
        IN (\A r \in DOMAIN pending : SafeAnonId(pending[r].anon) # a)
           => anonProfiles[i].v.askCount = OkResponses(a)

----------------------------------------------------------------------------
\* SpecProf: the route with the anonymous-profile map at its capacity.
\* The server has answered one request every RequestGapMs from each of
\* AnonMaxEntries visitors, all from one address, and every pipeline run has
\* failed: the profiles are in insertion order, each seen once.

ProfIP == "10.0.0.1"

\* the anon ID of the i-th visitor
AnonName(i) == "u" \o ToString(i)

\* the arrival time of the i-th of the earlier requests
ArrivalMs(i) == (i - 1) * RequestGapMs

InitProf ==
    /\ now = ArrivalMs(AnonMaxEntries + 1)
    /\ hits = FnSet(EmptyFn, RLKey(ProfIP),
                    [ count |-> RLMax, resetAtMs |-> ArrivalMs(AnonMaxEntries + 1) ])
    /\ askCache = << >>
    /\ askCacheOps = AnonMaxEntries
    /\ askInFlight = EmptyFn
    /\ anonProfiles = [ i \in 1..AnonMaxEntries |->
          [ k |-> AnonName(i),
            v |-> [ anonId |-> AnonName(i), createdAtMs |-> ArrivalMs(i),
                    lastSeenAtMs |-> ArrivalMs(i), askCount |-> 1,
                    lastLanguage |-> None, lastStyle |-> None,
                    topicCounts |-> EmptyFn ] ] ]
    /\ anonProfileOps = AnonMaxEntries
    /\ pending = EmptyFn
    /\ runs = EmptyFn
    /\ out = {}
    /\ arrived = {}
    /\ nodeEnv \in { "production", "development" }
    /\ reqsInWindow = FnSet(EmptyFn, ProfIP,
          [ start |-> ArrivalMs(AnonMaxEntries + 1) - RLWindowMs, k |-> RLMax, prev |-> RLMax ])
    /\ okCount = EmptyFn
    /\ pipe = None
    /\ io = None

\* returning visitors (the first ones) and new visitors
ProfAnonHdrs == { AnonName(i) : i \in 1..ProfReturning }
                \cup { AnonName(AnonMaxEntries + i) : i \in 1..ProfNew }

ProfArrive ==
    \E anonHdr \in ProfAnonHdrs :
        /\ Cardinality(DOMAIN pending) < MaxPending
        /\ HitsBelow(ProfIP, MaxHitsProf)
        /\ Request(ProfIP, anonHdr, RawBody("clock"))
        /\ UNCHANGED pipe

ProfOutcomes == { Succeeds("answer1"), Fails(502, "LLM request failed") }

ProfSettle == \E r \in DOMAIN runs, outcome \in ProfOutcomes : PipelineSettles(r, outcome) /\ UNCHANGED pipe

NextProf == ProfArrive \/ ProfSettle

SpecProf == InitProf /\ [][NextProf]_vars

\* lastSeenAtMs of the i-th profile when the turn's prune runs: the request's
\* own profile has just been touched by upsertAnonProfile
LastSeenAtPrune(i) ==
    IF \E x \in arrived' : /\ x.via \notin { "limiter", "invalid" }
                            /\ SafeAnonId(x.anon) = anonProfiles[i].k
    THEN now
    ELSE anonProfiles[i].v.lastSeenAtMs

\* the smallest lastSeenAtMs among the profiles of map m
OldestSeen(m) ==
    CHOOSE t \in { m[j].v.lastSeenAtMs : j \in 1..Len(m) } :
        \A j \in 1..Len(m) : t <= m[j].v.lastSeenAtMs

\* C11: no profile removed by a prune had been seen later than a profile
\* that the prune kept (capacity eviction is oldest-first by lastSeen).
C11_Step ==
    LET kept == MapKeys(anonProfiles')
        removed == { i \in 1..Len(anonProfiles) : anonProfiles[i].k \notin kept }
    IN removed # {} /\ kept # {}
       => \A i \in removed : LastSeenAtPrune(i) <= OldestSeen(anonProfiles')

C11_EvictsOldestByLastSeen == [][C11_Step]_vars

----------------------------------------------------------------------------
\* SpecStage: one client that sends valid and invalid bodies up to and past
\* the limit of its window, with runs that succeed (and are cached) or fail.


StageArrive ==
    \E raw \in { RawBody("clock"), RawBody("   ") } :
        /\ Cardinality(DOMAIN pending) < MaxPendingStage
        /\ HitsBelow(ProfIP, RLMax + MaxOverStage)
        /\ Request(ProfIP, "anonA", raw)
        /\ UNCHANGED pipe

StageSettle == \E r \in DOMAIN runs, outcome \in ProfOutcomes : PipelineSettles(r, outcome) /\ UNCHANGED pipe

NextStage == StageArrive \/ StageSettle \/ Tick

SpecStage == Init /\ [][NextStage]_vars

\* what the handler and the pipeline read and write
HandlerState == << askCache, askCacheOps, askInFlight, anonProfiles, anonProfileOps,
                   pending, runs >>

\* C13: every request, whatever its body and whatever answers it, first takes
\* one hit of its window; a request beyond the limit is answered 429 and
\* leaves profiles, cache, in-flight map and runs untouched; a request with
\* an invalid body is answered 400 before any of them is touched; only a
\* valid request that finds neither a fresh cache entry nor a run in flight
\* starts a pipeline run.
C13_Step ==
    \A a \in arrived' :
        LET key == KeyOf(a.ip, a.anon, a.raw)
            valid == AskRequestParse(a.raw).ok
        IN /\ hits'[RLKey(a.ip)].count = a.k
           /\ a.k > RLMax
              => /\ UNCHANGED HandlerState
                 /\ \A x \in out' : x.status = 429
           /\ a.k <= RLMax /\ ~valid
              => /\ UNCHANGED HandlerState
                 /\ \A x \in out' : x.status = 400
           /\ a.k <= RLMax /\ valid
              => /\ askCacheOps' = askCacheOps + 1
                 /\ runs' # runs
                    <=> /\ CacheLookup(askCache', key, now) = {}
                        /\ key \notin DOMAIN askInFlight

----------------------------------------------------------------------------
\* services/ask/askPipeline.ts: the question classifiers.
\* A question is the sequence of its lower-cased words; a regular expression
\* of words joined by \s+ matches where its words stand next to each other.

ContainsAny(q, pats) ==
    \E pat \in pats : \E i \in 1..(Len(q) - Len(pat) + 1) :
        SubSeq(q, i, i + Len(pat) - 1) = pat

ClassifyLocalClockIntent(q) ==
    LET asksDate == ContainsAny(q, {
            <<"today's", "date">>, <<"todays", "date">>, <<"today", "date">>,
            <<"date", "today">>, <<"what", "is", "the", "date">>,
            <<"what", "is", "date">>, <<"current", "date">>,
            <<"aaj", "ki", "date">>, <<"aaj", "ki", "tarikh">>, <<"aaj", "tarikh">> })
        asksTime == ContainsAny(q, {
            <<"what", "time", "is", "it">>, <<"time", "now">>, <<"current", "time">>,
            <<"time", "right", "now">>, <<"abhi", "time">>, <<"abhi", "ka", "time">>,
            <<"abhi", "kitna", "baja">> })
    IN CASE asksDate /\ asksTime -> "datetime"
         [] asksDate -> "date"
         [] asksTime -> "time"
         [] OTHER -> None

\* the answer's wording; the formatted date and time are left out
BuildLocalClockAnswer(input) ==
    LET intent == ClassifyLocalClockIntent(input.question)
        looksHindi == \/ input.language = "hi"
                      \/ /\ input.language = "auto"
                         /\ ContainsAny(input.question, { <<"aaj">>, <<"abhi">>, <<"tarikh">> })
    IN CASE intent = None -> None
         [] looksHindi /\ intent = "date" -> "Aaj ki tareekh ... hai"
         [] looksHindi /\ intent = "time" -> "Abhi ka samay ... hai"
         [] looksHindi -> "Abhi ... ho rahe hain aur tareekh ... hai"
         [] intent = "date" -> "Today's date is ..."
         [] intent = "time" -> "The current time is ..."
         [] OTHER -> "Right now it's ... on ..."

\* the first pattern group that matches gives the reason
DetectSafetyBlock(q) ==
    CASE ContainsAny(q, { <<"suicide">>, <<"kill", "myself">>, <<"self", "harm">>,
                          <<"selfharm">>, <<"cut", "myself">>, <<"want", "to", "die">> })
           -> "self_harm"
      [] ContainsAny(q, { <<"how", "to", "make", "a", "bomb">>, <<"make", "an", "explosive">>,
                          <<"pressure", "cooker", "bomb">> })
           -> "violence"
      [] ContainsAny(q, { <<"build", "a", "gun">>, <<"make", "a", "gun">>, <<"ghost", "gun">>,
                          <<"3d", "print", "a", "gun">>, <<"3dprint", "a", "gun">> })
           -> "weapons"
      [] ContainsAny(q, { <<"how", "to", "make", "meth">>, <<"cook", "meth">>,
                          <<"make", "cocaine">>, <<"synthesize", "fentanyl">> })
           -> "drugs"
      [] ContainsAny(q, { <<"ddos">>, <<"sql", "injection">>, <<"xss">>, <<"hack", "into">>,
                          <<"steal", "password">>, <<"phishing">>, <<"malware">>,
                          <<"ransomware">> })
           -> "hacking"
      [] ContainsAny(q, { <<"child", "porn">>, <<"minor", "sex">>, <<"underage", "sex">> })
           -> "sexual_content"
      [] OTHER -> None

LooksHindiQuestion(input) ==
    CASE input.language = "hi" -> TRUE
      [] input.language = "en" -> FALSE
      [] OTHER -> ContainsAny(input.question, { <<"aaj">>, <<"abhi">>, <<"kya">>, <<"kaise">>,
                      <<"kyu">>, <<"kyon">>, <<"kab">>, <<"kaha">> })

DetectRecencyIntent(q) ==
    LET wantsVeryFresh == ContainsAny(q, { <<"today">>, <<"right", "now">>,
                              <<"as", "of", "now">>, <<"breaking">>, <<"aaj">>, <<"abhi">>,
                              <<"taaza">>, <<"taza">> })
        wantsFresh == \/ wantsVeryFresh
                      \/ ContainsAny(q, { <<"latest">>, <<"current">>, <<"recent">>,
                             <<"news">>, <<"update">>, <<"updates">>, <<"this", "week">>,
                             <<"this", "month">>, <<"trending">>, <<"haal">>,
                             <<"is", "hafte">>, <<"iss", "week">> })
        isFinance == ContainsAny(q, { <<"stock">>, <<"stocks">>, <<"share">>, <<"shares">>,
                         <<"market">>, <<"price">>, <<"forecast">>, <<"nifty">>,
                         <<"sensex">>, <<"nasdaq">>, <<"dow">>, <<"crypto">>, <<"bitcoin">>,
                         <<"ethereum">>, <<"forex">>, <<"usd">>, <<"inr">>, <<"rupee">>,
                         <<"inflation">>, <<"interest", "rate">>, <<"interestrate">> })
    IN [ wantsFresh |-> wantsFresh, wantsVeryFresh |-> wantsVeryFresh,
         isFinance |-> isFinance ]

\* removes one leading question word
ExtractTopicFromQuestion(q) ==
    LET lead == { "what", "who", "where", "when", "why", "how", "explain", "define",
                  "latest", "current" }
        withoutLead == IF Len(q) >= 2 /\ SubSeq(q, 1, 2) = <<"tell", "me">> THEN SubSeq(q, 3, Len(q))
                       ELSE IF Len(q) >= 1 /\ q[1] \in lead THEN Tail(q)
                       ELSE q
    IN IF withoutLead # << >> THEN withoutLead ELSE q

\* String.prototype.trim, for texts whose only white space is the blank
TrimText(s) ==
    LET first[i \in 1..Len(s) + 1] ==
            IF i <= Len(s) /\ SubSeq(s, i, i) = " " THEN first[i + 1] ELSE i
        last[i \in 0..Len(s)] ==
            IF i >= 1 /\ SubSeq(s, i, i) = " " THEN last[i - 1] ELSE i
    IN SubSeq(s, first[1], last[Len(s)])

\* strips the bullet or number prefix and one quote at either end of each
\* item, drops the empty ones, keeps the first three, and of these the first
\* of each lower-cased spelling
SanitizeFollowUps(items) ==
    LET Lead == { "-", "*", ".", " ", "0", "1", "2", "3", "4", "5", "6", "7", "8", "9" }
        Lower == [ A |-> "a", B |-> "b", C |-> "c", D |-> "d", E |-> "e", F |-> "f",
                   G |-> "g", H |-> "h", I |-> "i", J |-> "j", K |-> "k", L |-> "l",
                   M |-> "m", N |-> "n", O |-> "o", P |-> "p", Q |-> "q", R |-> "r",
                   S |-> "s", T |-> "t", U |-> "u", V |-> "v", W |-> "w", X |-> "x",
                   Y |-> "y", Z |-> "z" ]
        Unlead(s) ==
            LET n[i \in 1..Len(s) + 1] ==
                    IF i <= Len(s) /\ SubSeq(s, i, i) \in Lead THEN n[i + 1] ELSE i
            IN TrimText(SubSeq(s, n[1], Len(s)))
        Unquote(s) ==
            LET from == IF s # "" /\ SubSeq(s, 1, 1) = "\"" THEN 2 ELSE 1
                to == IF Len(s) >= from /\ SubSeq(s, Len(s), Len(s)) = "\"" THEN Len(s) - 1
                      ELSE Len(s)
            IN TrimText(SubSeq(s, from, to))
        ToLowerCase(s) ==
            LET low[i \in 1..Len(s) + 1, j \in 0..Len(s)] ==
                    IF j < i THEN ""
                    ELSE IF i = j
                         THEN IF SubSeq(s, i, i) \in DOMAIN Lower THEN Lower[SubSeq(s, i, i)]
                              ELSE SubSeq(s, i, i)
                         ELSE low[i, (i + j) \div 2] \o low[(i + j) \div 2 + 1, j]
            IN low[1, Len(s)]
        nonEmpty == SelectSeq([ i \in 1..Len(items) |-> Unquote(Unlead(items[i])) ],
                              LAMBDA s : s # "")
        cleaned == SubSeq(nonEmpty, 1, IF Len(nonEmpty) < 3 THEN Len(nonEmpty) ELSE 3)
        unique[i \in 0..Len(cleaned)] ==
            IF i = 0 THEN << >>
            ELSE IF \E j \in 1..(i - 1) : ToLowerCase(cleaned[j]) = ToLowerCase(cleaned[i])
                 THEN unique[i - 1]
                 ELSE Append(unique[i - 1], cleaned[i])
    IN unique[Len(cleaned)]

\* the three follow-ups built by template from the first 80 characters of the
\* question's topic
BuildHeuristicFollowUps(input) ==
    LET words == ExtractTopicFromQuestion(input.question)
        joined[i \in 0..Len(words)] ==
            IF i = 0 THEN ""
            ELSE IF i = 1 THEN words[1]
            ELSE joined[i - 1] \o " " \o words[i]
        whole == joined[Len(words)]
        topic == SubSeq(whole, 1, IF Len(whole) < 80 THEN Len(whole) ELSE 80)
    IN SanitizeFollowUps(
         IF LooksHindiQuestion(input)
         THEN << topic \o " ke baare me key facts kya hain?",
                 topic \o " ke latest updates kya hain?",
                 topic \o " ka short summary 5 points me do." >>
         ELSE << "What are the key facts about " \o topic \o "?",
                 "Any recent updates or news about " \o topic \o "?",
                 "Summarize " \o topic \o " in 5 bullet points." >>)

\* buildSafetyRefusal: the message and the fixed follow-ups
SafetyRefusal(hindi) ==
    IF hindi
    THEN [ text |-> "Main is request me madad nahi kar sakti. Agar aap turant khatre me ho, apne area ki emergency services ya kisi trusted person se turant baat karein.",
           followUps |->
             << "Kya aap safe hain abhi?",
                "Aap kis type ki help chahte hain (support/resources)?",
                "Main aapko safe alternatives ke saath guide kar sakti hoon." >> ]
    ELSE [ text |-> "I can't help with that. If you're in immediate danger, contact local emergency services or someone you trust right now.",
           followUps |->
             << "Are you safe right now?",
                "What kind of help or resources are you looking for?",
                "I can offer safer alternatives or general guidance." >> ]
----------------------------------------------------------------------------
\* services/ask/askPipeline.ts: search queries, URL canonicalization, scoring,
\* candidate upsert and source selection

\* keeps the first occurrence of each element, up to n elements
RECURSIVE DedupeCap(_, _, _)
DedupeCap(seq, kept, n) ==
    IF seq = << >> \/ Len(kept) >= n THEN kept
    ELSE IF \E i \in 1..Len(kept) : kept[i] = Head(seq)
    THEN DedupeCap(Tail(seq), kept, n)
    ELSE DedupeCap(Tail(seq), Append(kept, Head(seq)), n)

\* the "official" query is added for input.mode === "verified" only
Queries(input) ==
    LET recency == DetectRecencyIntent(input.question)
        base == input.question
        core == ExtractTopicFromQuestion(input.question)
        queryCandidates ==
            << base >>
            \o (IF core # base THEN << core >> ELSE << >>)
            \o (IF recency.wantsFresh THEN << Append(core, "latest") >> ELSE << >>)
            \o (IF recency.wantsVeryFresh THEN << Append(core, "today") >> ELSE << >>)
            \o (IF recency.isFinance THEN << Append(core, "price") >> ELSE << >>)
            \o (IF input.mode = "verified" THEN << Append(core, "official") >> ELSE << >>)
    IN DedupeCap(queryCandidates, << >>, MaxQueries)

MaxFetch(input) ==
    LET wantsFresh == DetectRecencyIntent(input.question).wantsFresh
    IN IF input.mode = "verified" THEN (IF wantsFresh THEN 5 ELSE 4)
       ELSE (IF wantsFresh THEN 4 ELSE 3)

\* A URL is [scheme, www, site, path, slash, utm]: www counts the leading
\* "www." labels of the host, site is the rest of the host, slash says that the
\* path ends with "/", utm that the query holds a tracking parameter.
Url(scheme, www, site, path, slash, utm) ==
    [ scheme |-> scheme, www |-> www, site |-> site, path |-> path,
      slash |-> slash, utm |-> utm ]

\* host.replace(/^www\./, ""): one leading label
StripWww(www) == IF www > 0 THEN www - 1 ELSE 0

\* the key leaves the protocol out
NormalizeUrlForDedupe(u) ==
    [ key |-> [ www |-> StripWww(u.www), site |-> u.site, path |-> u.path ],
      cleanedUrl |-> Url(u.scheme, StripWww(u.www), u.site, u.path, FALSE, FALSE) ]

GetHostnameSafe(u) == [ www |-> StripWww(u.www), site |-> u.site ]

\* the host rules, for the sites of the model; snippet.hits: the question's
\* tokens found in title and snippet; snippet.ageDays: the age of its
\* "published:" date, -1 without one
ScoreSource(url, snippet, wantsFresh) ==
    (CASE url.site = "a.gov" -> 6
       [] url.site = "b.edu" -> 5
       [] url.site = "c.org" -> 2
       [] url.site = "medium.com" -> 0 - 2
       [] OTHER -> 0)
    + (IF snippet.hits < 6 THEN snippet.hits ELSE 6)
    + (IF wantsFresh /\ snippet.ageDays >= 0
       THEN (CASE snippet.ageDays <= 2 -> 4
               [] snippet.ageDays <= 7 -> 3
               [] snippet.ageDays <= 30 -> 2
               [] OTHER -> 1)
       ELSE 0)

UpsertCandidate(byNormUrl, src, wantsFresh) ==
    LET norm == NormalizeUrlForDedupe(src.url)
        score == ScoreSource(norm.cleanedUrl, src.snippet, wantsFresh)
    IN IF ~MapHas(byNormUrl, norm.key) \/ score > MapGet(byNormUrl, norm.key).score
       THEN MapSet(byNormUrl, norm.key,
                [ title |-> src.title, url |-> norm.cleanedUrl, snippet |-> src.snippet,
                  extractedText |-> src.extractedText, score |-> score,
                  normUrl |-> norm.key ])
       ELSE byNormUrl

RECURSIVE UpsertResults(_, _, _)
UpsertResults(byNormUrl, results, wantsFresh) ==
    IF results = << >> THEN byNormUrl
    ELSE UpsertResults(UpsertCandidate(byNormUrl, Head(results), wantsFresh),
                       Tail(results), wantsFresh)

\* for (const s of settled): a rejected call contributes nothing
RECURSIVE UpsertSettled(_, _, _)
UpsertSettled(byNormUrl, settled, wantsFresh) ==
    IF settled = << >> THEN byNormUrl
    ELSE UpsertSettled(
             IF Head(settled).fulfilled
             THEN UpsertResults(byNormUrl, Head(settled).results, wantsFresh)
             ELSE byNormUrl,
             Tail(settled), wantsFresh)

\* Array.prototype.sort((a, b) => b.score - a.score): stable
RECURSIVE InsertByScore(_, _)
InsertByScore(sorted, c) ==
    IF sorted = << >> THEN << c >>
    ELSE IF Head(sorted).score >= c.score
    THEN << Head(sorted) >> \o InsertByScore(Tail(sorted), c)
    ELSE << c >> \o sorted

RECURSIVE Ranked(_)
Ranked(cands) ==
    IF cands = << >> THEN << >>
    ELSE InsertByScore(Ranked(SubSeq(cands, 1, Len(cands) - 1)), cands[Len(cands)])

AsSource(c) ==
    [ title |-> c.title, url |-> c.url, snippet |-> c.snippet,
      extractedText |-> c.extractedText ]

\* first pass: at most perHost picks of one host
RECURSIVE PickByHost(_, _, _, _)
PickByHost(ranked, picked, maxSources, perHost) ==
    IF ranked = << >> \/ Len(picked) >= maxSources THEN picked
    ELSE LET c == Head(ranked)
             host == GetHostnameSafe(c.url)
             count == Cardinality({ i \in 1..Len(picked) : GetHostnameSafe(picked[i].url) = host })
         IN PickByHost(Tail(ranked),
                       IF count >= perHost THEN picked ELSE Append(picked, AsSource(c)),
                       maxSources, perHost)

\* second pass: fills up with the candidates not picked yet
RECURSIVE PickRest(_, _, _)
PickRest(ranked, picked, maxSources) ==
    IF ranked = << >> \/ Len(picked) >= maxSources THEN picked
    ELSE PickRest(Tail(ranked),
                  IF \E i \in 1..Len(picked) : picked[i].url = Head(ranked).url
                  THEN picked ELSE Append(picked, AsSource(Head(ranked))),
                  maxSources)

\* the selection without its second pass
SelectSources_NoBackfill(byNormUrl, wantsFresh) ==
    PickByHost(Ranked([ i \in 1..Len(byNormUrl) |-> byNormUrl[i].v ]), << >>,
               IF wantsFresh THEN 8 ELSE 6, IF wantsFresh THEN 1 ELSE 2)

SelectSources(byNormUrl, wantsFresh) ==
    LET ranked == Ranked([ i \in 1..Len(byNormUrl) |-> byNormUrl[i].v ])
        maxSources == IF wantsFresh THEN 8 ELSE 6
        preferredMaxPerHost == IF wantsFresh THEN 1 ELSE 2
    IN PickRest(ranked, PickByHost(ranked, << >>, maxSources, preferredMaxPerHost),
                maxSources)
----------------------------------------------------------------------------
\* services/ask/askPipeline.ts: citations of an answer.
\* An answer is the sequence of its blocks (separated by blank lines); a block
\* is [code, len, lines]: code for a fenced code block, len the length of its
\* text; a line is [bullet, len, cites]: whether it starts with a list marker,
\* the length of its text without the marker, and the numbers n of its [n]
\* marks, in order.

\* the elements of a set of numbers, ascending
RECURSIVE Ascending(_)
Ascending(S) ==
    IF S = {} THEN << >>
    ELSE LET m == CHOOSE x \in S : \A y \in S : x <= y
         IN << m >> \o Ascending(S \ { m })

\* Array.from(new Set(numbers)).sort((a, b) => a - b), over the whole answer
ExtractCitationNumbers(answer) ==
    Ascending(UNION { UNION { { answer[b].lines[l].cites[c] :
                                  c \in 1..Len(answer[b].lines[l].cites) } :
                              l \in 1..Len(answer[b].lines) } :
                      b \in 1..Len(answer) })

\* nums.filter((n) => n >= 1 && n <= max), deduplicated and sorted
SanitizeCitationNumbers_OffByOne(nums, max) ==
    Ascending({ nums[i] : i \in { j \in 1..Len(nums) : nums[j] > 1 /\ nums[j] <= max } })

SanitizeCitationNumbers(nums, max) ==
    Ascending({ nums[i] : i \in { j \in 1..Len(nums) : nums[j] >= 1 /\ nums[j] <= max } })

\* stripCodeFences drops the code blocks; a block with list items is judged
\* item by item, any other block as a whole
HasMissingCitations(answer) ==
    \E b \in 1..Len(answer) :
        LET block == answer[b]
            bulletLines == SelectSeq(block.lines, LAMBDA l : l.bullet)
        IN /\ ~block.code
           /\ IF bulletLines # << >>
              THEN \E l \in 1..Len(bulletLines) :
                      bulletLines[l].len >= 20 /\ bulletLines[l].cites = << >>
              ELSE /\ block.len >= 40
                   /\ \A l \in 1..Len(block.lines) : block.lines[l].cites = << >>

\* the citations of the response: sources[n - 1] for the numbers used
CitationsOf(answer, sources) ==
    LET used == SanitizeCitationNumbers(ExtractCitationNumbers(answer), Len(sources))
    IN [ i \in 1..Len(used) |->
           [ url |-> sources[used[i]].url, title |-> sources[used[i]].title ] ]
----------------------------------------------------------------------------
\* services/ask/askPipeline.ts: one run of askPipeline.
\* pipe holds the run's locals; pipe.pc is the await the run is suspended at,
\* pipe.calls the outbound calls issued so far, in order.

\* an outbound call: fields over the defaults; an LLM temperature is in tenths
Call(fields) ==
    fields @@ [ kind |-> "", purpose |-> "", query |-> << >>,
                url |-> Url("", 0, "", "", FALSE, FALSE), depth |-> "", raw |-> "",
                strict |-> FALSE, temperature |-> 0 ]

\* tavilyWebSearch(q, { searchDepth, includeRawContent, ... })
TavilyCall(input, q) ==
    LET wantsFresh == DetectRecencyIntent(input.question).wantsFresh
    IN Call([ kind |-> "tavily", query |-> q,
              depth |-> IF input.mode = "verified"
                        THEN (IF wantsFresh THEN "advanced" ELSE "basic")
                        ELSE "fast",
              raw |-> IF input.mode = "verified" THEN "text" ELSE "false" ])

NoResponse == [ status |-> 0, model |-> << >>, text |-> "", answer |-> << >>,
                citations |-> << >>, followUps |-> << >>, message |-> "" ]

\* a throw that leaves askPipeline
Thrown(p, status, message) ==
    [ p EXCEPT !.pc = "failed",
               !.response = [ NoResponse EXCEPT !.status = status, !.message = message ] ]

\* const mode = input.mode ?? "verified"
Mode(input) == IF input.mode = None THEN "verified" ELSE input.mode

\* parseFollowUpsLoose: the reply's lines, without the empty ones and the
\* code fences, sanitized; << >> stands for undefined. The back quote of a
\* fence is written ' in the model's texts
ParseFollowUpsLoose(raw) ==
    LET lines == [ i \in 1..Len(raw.lines) |-> TrimText(raw.lines[i]) ]
    IN SanitizeFollowUps(SelectSeq(lines,
           LAMBDA l : l # "" /\ ~(Len(l) >= 3 /\ SubSeq(l, 1, 3) = "'''")))

\* generateFollowUps after the reply arrived. raw.json is what JSON.parse
\* makes of the array extractJsonArrayString finds in the reply: empty when
\* there is no array or it is not JSON
ParseFollowUps(raw) ==
    LET Parsed(json) == [ i \in 1..Len(json) |-> TrimText(json[i]) ]
        Success(json) == /\ Len(json) \in 1..3
                         /\ \A i \in 1..Len(json) : Len(TrimText(json[i])) \in 1..140
        strict == { SanitizeFollowUps(Parsed(json)) : json \in { j \in raw.json : Success(j) } }
    IN IF strict \notin { {}, { << >> } } THEN CHOOSE f \in strict : TRUE
       ELSE ParseFollowUpsLoose(raw)

GenerateFollowUps(p) ==
    [ p EXCEPT !.pc = "followUps", !.calls = Append(@, Call([ kind |-> "llm", purpose |-> "followUps", temperature |-> 5 ])) ]

\* the strict re-call is made for a defect of the composed answer
NeedsStrictRetry_Never(p, answer) == FALSE

NeedsStrictRetry(p, answer) ==
    LET wantsRetryForCitations == Mode(p.input) = "verified" /\ Len(p.sources) > 0
        extracted == ExtractCitationNumbers(answer)
        sanitized == SanitizeCitationNumbers(extracted, Len(p.sources))
        hasInvalid == Len(extracted) # Len(sanitized)
        hasNone == Len(sanitized) = 0
        hasMissing == HasMissingCitations(answer)
    IN wantsRetryForCitations /\ (hasNone \/ hasInvalid \/ hasMissing)

DirectComposition(p) ==
    [ p EXCEPT !.pc = "compose",
               !.calls = Append(@, Call([ kind |-> "llm", purpose |-> "direct",
                                          temperature |-> IF p.input.mode = "fast"
                                                          THEN 7 ELSE 3 ])) ]

\* the grounded path is taken for mode verified with sources
UsesGroundedPath_Always(p) == TRUE

UsesGroundedPath(p) == Mode(p.input) = "verified" /\ Len(p.sources) > 0

Compose(p) ==
    IF UsesGroundedPath(p)
    THEN [ p EXCEPT !.pc = "facts",
                    !.calls = Append(@, Call([ kind |-> "llm", purpose |-> "facts",
                                               strict |-> TRUE, temperature |-> 1 ])) ]
    ELSE DirectComposition(p)

\* parseGroundedFacts: the facts that keep a citation in range
ParseGroundedFacts(raw, maxSource) ==
    SelectSeq([ i \in 1..Len(raw) |-> SanitizeCitationNumbers(raw[i], maxSource) ],
              LAMBDA cites : cites # << >>)

ToFetch(p) ==
    LET n == IF MaxFetch(p.input) < Len(p.sources) THEN MaxFetch(p.input) ELSE Len(p.sources)
    IN { i \in 1..n : p.sources[i].extractedText = None }

FetchPages(p) ==
    LET toFetch == ToFetch(p)
        idx == Ascending(toFetch)
    IN IF toFetch # {}
       THEN [ p EXCEPT !.pc = "fetch", !.toFetch = toFetch,
                       !.calls = @ \o [ i \in 1..Len(idx) |-> Call([ kind |-> "fetch", url |-> p.sources[idx[i]].url ]) ] ]
       ELSE Compose(p)

Select(p) ==
    FetchPages([ p EXCEPT !.sources = SelectSources(p.byNormUrl,
                                             DetectRecencyIntent(p.input.question).wantsFresh) ])

BraveSearch(p) ==
    LET queries == Queries(p.input)
        n == IF Len(queries) < 2 THEN Len(queries) ELSE 2
    IN IF p.env.BRAVE_SEARCH_API_KEY
       THEN [ p EXCEPT !.pc = "brave",
                       !.calls = @ \o [ i \in 1..n |-> Call([ kind |-> "brave", query |-> queries[i] ]) ] ]
       ELSE Select(p)

\* the settled searches go into byNormUrl; Tavily's raw content is the excerpt;
\* p.fulfilled counts the search calls that were fulfilled so far
Upserted(p, settled) ==
    [ p EXCEPT !.fulfilled = @ + Len(SelectSeq(settled, LAMBDA r : r.fulfilled)),
               !.byNormUrl =
        UpsertSettled(@, [ i \in 1..Len(settled) |->
                             [ fulfilled |-> settled[i].fulfilled,
                               results |-> [ k \in 1..Len(settled[i].results) |->
                                   LET r == settled[i].results[k]
                                   IN [ title |-> r.title, url |-> r.url,
                                        snippet |-> r.snippet,
                                        extractedText |-> IF r.raw THEN "excerpt"
                                                          ELSE None ] ] ] ],
                      DetectRecencyIntent(p.input.question).wantsFresh) ]

WebSearch(p) ==
    LET queries == Queries(p.input)
    IN IF p.input.useWeb = { FALSE } THEN Compose(p)
       ELSE IF p.env.TAVILY_API_KEY
       THEN [ p EXCEPT !.pc = "tavily",
                       !.calls = @ \o [ i \in 1..Len(queries) |-> TavilyCall(p.input, queries[i]) ] ]
       ELSE BraveSearch(p)

WithModel(p, model) ==
    IF model = None THEN Thrown(p, 503, "No free OpenRouter models available")
    ELSE WebSearch([ p EXCEPT !.model = model ])

\* the returns of the shortcuts (provider "openrouter", citations []), the
\* local clock before the safety block
ShortcutReturns(p) ==
    LET Shortcut(model, text, followUps) ==
            [ p EXCEPT !.pc = "done",
                       !.response = [ NoResponse EXCEPT !.status = 200, !.model = model,
                                          !.text = text, !.followUps = followUps ] ]
        refusal == SafetyRefusal(LooksHindiQuestion(p.input))
    IN IF BuildLocalClockAnswer(p.input) # None
       THEN { Shortcut(<<"local-clock">>, BuildLocalClockAnswer(p.input),
                       BuildHeuristicFollowUps(p.input)) }
       ELSE IF DetectSafetyBlock(p.input.question) # None
       THEN { Shortcut(<<"policy", DetectSafetyBlock(p.input.question)>>,
                       refusal.text, refusal.followUps) }
       ELSE {}

\* let model = input.model ?? env.OPENROUTER_DEFAULT_MODEL, else the free models
SelectModel(p) ==
    IF ~p.env.OPENROUTER_API_KEY
    THEN Thrown(p, 503, "OPENROUTER_API_KEY is not configured")
    ELSE IF p.input.model # None THEN WithModel(p, p.input.model)
    ELSE IF p.env.OPENROUTER_DEFAULT_MODEL # None
    THEN WithModel(p, p.env.OPENROUTER_DEFAULT_MODEL)
    ELSE [ p EXCEPT !.pc = "models", !.calls = Append(@, Call([ kind |-> "models" ])) ]

\* askPipeline up to its first await: the shortcuts come first
Started_ModelFirst(p) ==
    IF SelectModel(p).pc # "failed" /\ ShortcutReturns(p) # {}
    THEN [ (CHOOSE r \in ShortcutReturns(p) : TRUE) EXCEPT !.calls = SelectModel(p).calls ]
    ELSE SelectModel(p)

Started(p) ==
    IF ShortcutReturns(p) # {} THEN CHOOSE r \in ShortcutReturns(p) : TRUE
    ELSE SelectModel(p)

\* an awaited call rejects (Succeeds: it returns)
Throws(status, message) ==
    [ ok |-> FALSE, value |-> << >>, error |-> [ status |-> status, message |-> message ] ]

\* what the route's state is to a pipeline run
routeVars == << now, hits, askCache, askCacheOps, askInFlight, anonProfiles,
               anonProfileOps, pending, runs, out, arrived, nodeEnv, reqsInWindow,
               okCount >>

\* askPipeline(input) is called and runs to its first await
Begin ==
    /\ pipe.pc = "start"
    /\ pipe' = Started(pipe)
    /\ UNCHANGED << routeVars, io >>

\* listFreeOpenRouterModels settles: model = freeModels[0]; a throw leaves askPipeline
ModelsSettle(outcome) ==
    /\ pipe.pc = "models"
    /\ pipe' = IF ~outcome.ok THEN Thrown(pipe, outcome.error.status, outcome.error.message)
               ELSE IF outcome.value = << >> THEN WithModel(pipe, None)
               ELSE WithModel(pipe, outcome.value[1])
    /\ UNCHANGED << routeVars, io >>

\* the Tavily calls have all settled; a rejected call is skipped
TavilySettles_RejectionThrows(settled) ==
    /\ pipe.pc = "tavily"
    /\ pipe' = IF \E i \in 1..Len(settled) : ~settled[i].fulfilled
               THEN Thrown(pipe, 502, "Search provider error")
               ELSE BraveSearch(Upserted(pipe, settled))
    /\ UNCHANGED << routeVars, io >>

TavilySettles(settled) ==
    /\ pipe.pc = "tavily"
    /\ pipe' = BraveSearch(Upserted(pipe, settled))
    /\ UNCHANGED << routeVars, io >>

\* the Brave calls have all settled
BraveSettles(settled) ==
    /\ pipe.pc = "brave"
    /\ pipe' = Select(Upserted(pipe, settled))
    /\ UNCHANGED << routeVars, io >>

\* a rejected fetch takes its source off the list
FetchSettles_DropsFailed(idx, ok) ==
    /\ pipe.pc = "fetch"
    /\ idx \in pipe.toFetch
    /\ pipe' = Compose([ pipe EXCEPT
                   !.toFetch = {},
                   !.sources = IF ok THEN [ @ EXCEPT ![idx].extractedText = "excerpt" ]
                               ELSE SubSeq(@, 1, idx - 1) \o SubSeq(@, idx + 1, Len(@)) ])
    /\ UNCHANGED << routeVars, io >>

\* the fetch of sources[idx] settles: the callback of a fulfilled fetch sets
\* the excerpt of its source, a rejected one leaves it; Promise.allSettled
\* resolves when the last of them has settled
FetchSettles(idx, ok) ==
    /\ pipe.pc = "fetch"
    /\ idx \in pipe.toFetch
    /\ LET p == [ pipe EXCEPT !.toFetch = @ \ { idx },
                              !.sources[idx].extractedText = IF ok THEN "excerpt" ELSE @ ]
       IN pipe' = IF p.toFetch = {} THEN Compose(p) ELSE p
    /\ UNCHANGED << routeVars, io >>

\* a throw of generateGroundedFacts leaves askPipeline
FactsSettle_FailureThrows(outcome) ==
    /\ pipe.pc = "facts"
    /\ pipe' = IF ~outcome.ok THEN Thrown(pipe, outcome.error.status, outcome.error.message)
               ELSE IF ParseGroundedFacts(outcome.value, Len(pipe.sources)) # << >>
               THEN [ pipe EXCEPT !.pc = "compose",
                          !.calls = Append(@, Call([ kind |-> "llm", purpose |-> "fromFacts",
                                                     strict |-> TRUE, temperature |-> 2 ])) ]
               ELSE DirectComposition(pipe)
    /\ UNCHANGED << routeVars, io >>

\* generateGroundedFacts settles; a throw is caught and leaves no facts
FactsSettle(outcome) ==
    /\ pipe.pc = "facts"
    /\ pipe' = IF outcome.ok /\ ParseGroundedFacts(outcome.value, Len(pipe.sources)) # << >>
               THEN [ pipe EXCEPT !.pc = "compose",
                          !.calls = Append(@, Call([ kind |-> "llm", purpose |-> "fromFacts",
                                                     strict |-> TRUE, temperature |-> 2 ])) ]
               ELSE DirectComposition(pipe)
    /\ UNCHANGED << routeVars, io >>

\* composeAnswerFromFacts or the direct call settles; a throw leaves askPipeline
ComposeSettles(outcome) ==
    /\ pipe.pc = "compose"
    /\ pipe' = IF ~outcome.ok
               THEN Thrown(pipe, outcome.error.status, outcome.error.message)
               ELSE IF NeedsStrictRetry(pipe, outcome.value)
               THEN [ pipe EXCEPT !.pc = "strict", !.answer = outcome.value,
                          !.calls = Append(@, Call([ kind |-> "llm", purpose |-> "strict",
                                                     strict |-> TRUE, temperature |-> 2 ])) ]
               ELSE GenerateFollowUps([ pipe EXCEPT !.answer = outcome.value ])
    /\ UNCHANGED << routeVars, io >>

\* the strict re-call is repeated while its answer has a defect
StrictSettles_Again(outcome) ==
    /\ pipe.pc = "strict"
    /\ Len(pipe.calls) < 12
    /\ pipe' = IF ~outcome.ok THEN Thrown(pipe, outcome.error.status, outcome.error.message)
               ELSE IF NeedsStrictRetry(pipe, outcome.value)
               THEN [ pipe EXCEPT !.answer = outcome.value,
                          !.calls = Append(@, Call([ kind |-> "llm", purpose |-> "strict",
                                                     strict |-> TRUE, temperature |-> 2 ])) ]
               ELSE GenerateFollowUps([ pipe EXCEPT !.answer = outcome.value ])
    /\ UNCHANGED << routeVars, io >>

\* a strict re-call that throws is given up and the first answer is kept
StrictSettles_KeepsFirstAnswer(outcome) ==
    /\ pipe.pc = "strict"
    /\ pipe' = IF outcome.ok THEN GenerateFollowUps([ pipe EXCEPT !.answer = outcome.value ])
               ELSE GenerateFollowUps(pipe)
    /\ UNCHANGED << routeVars, io >>

\* the strict re-call settles: its answer is final
StrictSettles(outcome) ==
    /\ pipe.pc = "strict"
    /\ pipe' = IF outcome.ok THEN GenerateFollowUps([ pipe EXCEPT !.answer = outcome.value ])
               ELSE Thrown(pipe, outcome.error.status, outcome.error.message)
    /\ UNCHANGED << routeVars, io >>

\* a throw of generateFollowUps leaves askPipeline
FollowUpsSettle_FailureThrows(outcome) ==
    /\ pipe.pc = "followUps"
    /\ pipe' = IF ~outcome.ok THEN Thrown(pipe, outcome.error.status, outcome.error.message)
               ELSE [ pipe EXCEPT
                   !.pc = "done",
                   !.response = [ NoResponse EXCEPT
                       !.status = 200, !.model = <<pipe.model>>, !.answer = pipe.answer,
                       !.citations = CitationsOf(pipe.answer, pipe.sources),
                       !.followUps = IF ParseFollowUps(outcome.value) # << >>
                                     THEN ParseFollowUps(outcome.value)
                                     ELSE BuildHeuristicFollowUps(pipe.input) ] ]
    /\ UNCHANGED << routeVars, io >>

\* generateFollowUps settles (a throw is caught) and askPipeline returns
\* { provider, model, answer, citations, followUps: finalFollowUps }
FollowUpsSettle(outcome) ==
    /\ pipe.pc = "followUps"
    /\ pipe' = [ pipe EXCEPT
                   !.pc = "done",
                   !.response = [ NoResponse EXCEPT
                       !.status = 200, !.model = <<pipe.model>>, !.answer = pipe.answer,
                       !.citations = CitationsOf(pipe.answer, pipe.sources),
                       !.followUps = IF outcome.ok /\ ParseFollowUps(outcome.value) # << >>
                                     THEN ParseFollowUps(outcome.value)
                                     ELSE BuildHeuristicFollowUps(pipe.input) ] ]
    /\ UNCHANGED << routeVars, io >>
----------------------------------------------------------------------------
\* SpecPipe: one askPipeline run for each input and configuration, with every
\* outcome of its outbound calls

\* a question that matches a time intent and a safety pattern
QTimeBomb == << "what", "time", "is", "it", "to", "make", "an", "explosive" >>

QHindiBomb == << "aaj", "bomb", "kaise", "banate", "hai" >>

InitPipe ==
    /\ now = 0
    /\ hits = EmptyFn
    /\ askCache = << >>
    /\ askCacheOps = 0
    /\ askInFlight = EmptyFn
    /\ anonProfiles = << >>
    /\ anonProfileOps = 0
    /\ pending = EmptyFn
    /\ runs = EmptyFn
    /\ out = {}
    /\ arrived = {}
    /\ nodeEnv = "production"
    /\ reqsInWindow = EmptyFn
    /\ okCount = EmptyFn
    /\ io = None
    /\ \E q \in { << "what", "time", "is", "it" >>, QTimeBomb,
                   << "how", "to", "make", "a", "bomb" >>, QHindiBomb,
                   << "capital", "of", "france" >>,
                   << "explain", "the", "difference", "between", "the", "parliamentary",
                      "and", "the", "presidential", "system", "of", "government", "in",
                      "a", "federal", "republic" >> },
          m \in { None, "fast", "verified" },
          u \in { {}, { FALSE } },
          env \in [ OPENROUTER_API_KEY : BOOLEAN, OPENROUTER_DEFAULT_MODEL : { None, "model1" },
                    TAVILY_API_KEY : BOOLEAN, BRAVE_SEARCH_API_KEY : BOOLEAN ] :
          pipe = [ pc |-> "start",
                   input |-> [ question |-> q, mode |-> m, language |-> None,
                               useWeb |-> u, model |-> None ],
                   env |-> env, model |-> None, byNormUrl |-> << >>, sources |-> << >>,
                   toFetch |-> {}, answer |-> << >>, calls |-> << >>,
                   fulfilled |-> 0, response |-> NoResponse ]

\* what a search provider returns for a query: Brave's results repeat two of
\* Tavily's pages under other spellings of their URLs
WebResults(provider) ==
    LET Result(title, url, tokenHits, ageDays, raw) ==
            [ title |-> title, url |-> url,
              snippet |-> [ hits |-> tokenHits, ageDays |-> ageDays ], raw |-> raw ]
    IN IF provider = "tavily"
       THEN << Result("A", Url("https", 1, "a.gov", "/x", FALSE, FALSE), 2, 0 - 1, TRUE),
               Result("B", Url("https", 0, "b.com", "/y", TRUE, FALSE), 1, 0 - 1, FALSE) >>
       ELSE << Result("B2", Url("http", 1, "b.com", "/y", FALSE, TRUE), 1, 0 - 1, FALSE),
               Result("C", Url("https", 0, "c.org", "/z", FALSE, FALSE), 0, 3, FALSE),
               Result("A2", Url("https", 2, "a.gov", "/x", FALSE, FALSE), 1, 0 - 1, FALSE) >>

\* Promise.allSettled: each of the provider's calls of the run is rejected or
\* fulfilled with the provider's results
Settled(provider) ==
    [ 1..Len(SelectSeq(pipe.calls, LAMBDA c : c.kind = provider)) ->
        { [ fulfilled |-> FALSE, results |-> << >> ],
          [ fulfilled |-> TRUE, results |-> WebResults(provider) ] } ]

\* the answers the model returns: cited; uncited; citing [0], [1], [9]; an
\* uncited list item; a short uncited block, a repeated citation and code
PipeAnswers ==
    LET Line(bullet, len, cites) == [ bullet |-> bullet, len |-> len, cites |-> cites ]
        Block(code, len, lines) == [ code |-> code, len |-> len, lines |-> lines ]
    IN { << Block(FALSE, 60, << Line(FALSE, 60, << 1 >>) >>) >>,
         << Block(FALSE, 60, << Line(FALSE, 60, << >>) >>) >>,
         << Block(FALSE, 60, << Line(FALSE, 60, << 0, 1, MaxCiteNumber >>) >>) >>,
         << Block(FALSE, 60, << Line(FALSE, 60, << 2, 1, 2 >>) >>),
            Block(FALSE, 42, << Line(TRUE, 30, << >>), Line(TRUE, 10, << >>) >>) >>,
         << Block(FALSE, 10, << Line(FALSE, 10, << >>) >>),
            Block(FALSE, 60, << Line(FALSE, 60, << 2, 1, 2 >>) >>),
            Block(TRUE, 80, << Line(FALSE, 80, << >>) >>) >> }

\* a composition call returns an answer or throws
AnswerOutcomes ==
    { Succeeds(a) : a \in PipeAnswers } \cup { Throws(502, "LLM request failed") }

\* the follow-up call throws or returns a reply: a JSON array on one line
\* (two questions; one question of 141 characters; four questions; items that
\* are only bullets), numbered lines with a repeated question inside a code
\* fence, one long sentence, or nothing
FollowUpOutcomes ==
    LET ten == "abcdefghi "
        long == ten \o ten \o ten \o ten \o ten \o ten \o ten \o ten \o ten \o ten
                    \o ten \o ten \o ten \o ten \o "?"
        Quoted(items) ==
            LET q[i \in 0..Len(items)] ==
                    IF i = 0 THEN ""
                    ELSE q[i - 1] \o (IF i = 1 THEN "" ELSE ", ") \o "\"" \o items[i] \o "\""
            IN q[Len(items)]
        Array(items) == [ lines |-> << "[" \o Quoted(items) \o "]" >>, json |-> { items } ]
        Text(lines) == [ lines |-> lines, json |-> {} ]
    IN { Succeeds(Array(<< "Why is it so?", " What comes next? " >>)),
         Succeeds(Array(<< long >>)),
         Succeeds(Array(<< "Why?", "How?", "When?", "Where?" >>)),
         Succeeds(Array(<< "1.", "- " >>)),
         Succeeds(Text(<< "'''json", "1. Why is it so?", "2. \"WHY IS IT SO?\"", "",
                          "- What comes next?", "* And then?", "'''" >>)),
         Succeeds(Text(<< "Here is " \o long >>)),
         Succeeds(Text(<< >>)),
         Throws(502, "LLM request failed") }

\* an awaited call of the run settles
PipeStep ==
    \/ \E outcome \in { Succeeds(<< >>), Succeeds(<< "free1" >>),
                        Throws(502, "Failed to list models") } : ModelsSettle(outcome)
    \/ \E settled \in Settled("tavily") : TavilySettles(settled)
    \/ \E settled \in Settled("brave") : BraveSettles(settled)
    \/ \E idx \in pipe.toFetch, ok \in BOOLEAN : FetchSettles(idx, ok)
    \/ \E outcome \in { Succeeds(<< >>), Succeeds(<< << 1 >> >>),
                        Succeeds(<< << MaxCiteNumber >> >>),
                        Throws(502, "LLM request failed") } : FactsSettle(outcome)
    \/ \E outcome \in AnswerOutcomes : ComposeSettles(outcome)
    \/ \E outcome \in AnswerOutcomes : StrictSettles(outcome)
    \/ \E outcome \in FollowUpOutcomes : FollowUpsSettle(outcome)

NextPipe == Begin \/ PipeStep

SpecPipe == InitPipe /\ [][NextPipe]_vars

----------------------------------------------------------------------------
\* Claims about askPipeline, checked on SpecPipe

CallsOfKind(p, kind) == SelectSeq(p.calls, LAMBDA c : c.kind = kind)

LlmCalls(p, purpose) == SelectSeq(p.calls, LAMBDA c : c.kind = "llm" /\ c.purpose = purpose)

\* C14: a run whose question matches a date/time intent or a safety pattern
\* returns at once with model "local-clock" (checked first) or
\* "policy-<reason>" and empty citations, has issued no outbound call of any
\* kind, and does so whether or not the LLM API key is configured.
C14_ShortcutsBeforeOutbound ==
    LET q == pipe.input.question
        clock == ClassifyLocalClockIntent(q) # None
        blocked == DetectSafetyBlock(q) # None
    IN pipe.pc # "start" /\ (clock \/ blocked)
       => /\ pipe.pc = "done"
          /\ pipe.calls = << >>
          /\ pipe.response.status = 200
          /\ pipe.response.citations = << >>
          /\ pipe.response.model = IF clock THEN << "local-clock" >>
                                   ELSE << "policy", DetectSafetyBlock(q) >>

\* a question that matches both a time intent and a safety pattern is
\* answered by the local clock, without an API key
C14_Witness ==
    /\ pipe.pc = "done"
    /\ pipe.input.question = QTimeBomb
    /\ DetectSafetyBlock(QTimeBomb) = "violence"
    /\ ~pipe.env.OPENROUTER_API_KEY
    /\ pipe.response.model = << "local-clock" >>

\* C15: the question "aaj bomb kaise banate hai" is answered by the refusal
\* branch: model "policy-violence", the Hindi refusal text, no citations, the
\* three fixed Hindi follow-ups, and no LLM call.
C15_HindiBombRefused ==
    pipe.input.question = QHindiBomb /\ pipe.pc # "start"
    => /\ pipe.pc = "done"
       /\ pipe.response.model = << "policy", "violence" >>
       /\ pipe.response.text = SafetyRefusal(TRUE).text
       /\ pipe.response.citations = << >>
       /\ pipe.response.followUps = SafetyRefusal(TRUE).followUps
       /\ CallsOfKind(pipe, "llm") = << >>

\* C16: a run whose input omits mode issues the searches of the same input
\* with mode "verified" (same queries, searchDepth and includeRawContent) and
\* fetches the pages that input would fetch.
C16_OmittedModeIsVerified ==
    LET verified == [ pipe.input EXCEPT !.mode = "verified" ]
        tavily == CallsOfKind(pipe, "tavily")
    IN pipe.input.mode = None
       => /\ tavily # << >>
             => tavily = [ i \in 1..Len(Queries(verified)) |->
                             TavilyCall(verified, Queries(verified)[i]) ]
          /\ pipe.pc = "fetch" /\ Cardinality(pipe.toFetch) = Len(CallsOfKind(pipe, "fetch"))
             => pipe.toFetch = ToFetch([ pipe EXCEPT !.input = verified ])

\* the numbers n of the [n] marks of an answer
CitedNumbers(answer) ==
    { n \in 0..MaxCiteNumber :
        \E b \in 1..Len(answer) : \E l \in 1..Len(answer[b].lines) :
            \E c \in 1..Len(answer[b].lines[l].cites) : answer[b].lines[l].cites[c] = n }

\* an out-of-range citation, no in-range citation, or a factual block
\* without a citation
Defect(answer, sourcesCount) ==
    \/ CitedNumbers(answer) \ (1..sourcesCount) # {}
    \/ CitedNumbers(answer) \cap (1..sourcesCount) = {}
    \/ HasMissingCitations(answer)

\* C17: the strict re-call is issued when, and only when, a composition call
\* of a run with mode verified and at least one source returns an answer with
\* a defect; a run never issues a second one, and when the strict re-call
\* returns the run goes on to the follow-ups with that answer, which is the
\* answer of the response.
C17_Step ==
    LET before == Len(LlmCalls(pipe, "strict"))
        after == Len(LlmCalls(pipe', "strict"))
    IN /\ after <= 1
       /\ IF pipe.pc = "compose" /\ pipe'.pc # "failed"
          THEN after = 1 <=> /\ Mode(pipe.input) = "verified"
                             /\ Len(pipe.sources) >= 1
                             /\ Defect(pipe'.answer, Len(pipe.sources))
          ELSE after = before
       /\ pipe.pc = "strict" /\ pipe'.pc # "failed" => pipe'.pc = "followUps"
       /\ pipe'.pc = "done" /\ pipe.pc = "followUps" => pipe'.response.answer = pipe.answer

C17_StrictRetryOnce == [][C17_Step]_vars

\* a strict re-call has returned an answer that still has a defect, and the
\* run has returned it
C17_Witness ==
    /\ pipe.pc = "done"
    /\ Len(LlmCalls(pipe, "strict")) = 1
    /\ Len(pipe.sources) >= 1
    /\ Defect(pipe.response.answer, Len(pipe.sources))

\* C18: fact extraction, composition from facts and the strict re-call occur
\* only in runs with mode verified and a non-empty source list; a run with
\* mode fast or without sources that reaches the follow-ups has made exactly
\* one direct composition call.
C18_CompositionPath ==
    LET grounded == Mode(pipe.input) = "verified" /\ Len(pipe.sources) > 0
    IN /\ \/ grounded
          \/ /\ LlmCalls(pipe, "facts") = << >>
             /\ LlmCalls(pipe, "fromFacts") = << >>
             /\ LlmCalls(pipe, "strict") = << >>
       /\ ~grounded /\ pipe.pc \in { "followUps", "done" } /\ pipe.model # None
          => Len(LlmCalls(pipe, "direct")) = 1

\* a run with mode omitted whose searches all failed has composed directly,
\* once, and returned
C18_Witness ==
    /\ pipe.pc = "done"
    /\ pipe.input.mode = None
    /\ CallsOfKind(pipe, "tavily") # << >>
    /\ pipe.sources = << >>
    /\ Len(LlmCalls(pipe, "direct")) = 1
    /\ LlmCalls(pipe, "strict") = << >>

\* C19: the citations of a successful response are sources[n - 1] for the
\* distinct n in 1..len(sources) that occur as [n] in its answer, in
\* ascending n, with no URL twice; an out-of-range n adds nothing.
C19_CitationMapping ==
    pipe.pc = "done"
    => LET used == CitedNumbers(pipe.response.answer) \cap (1..Len(pipe.sources))
           citations == pipe.response.citations
       IN /\ Len(citations) = Cardinality(used)
          /\ \A n \in used :
                LET i == Cardinality({ m \in used : m <= n })
                IN citations[i] = [ url |-> pipe.sources[n].url,
                                    title |-> pipe.sources[n].title ]
          /\ \A i, j \in 1..Len(citations) : citations[i].url = citations[j].url => i = j

\* an answer citing [2], [1], [2] over at least two sources, and an answer
\* citing [0], [1], [9]
C19_Witness ==
    /\ pipe.pc = "done"
    /\ Len(pipe.sources) >= 2
    /\ \/ /\ CitedNumbers(pipe.response.answer) = { 1, 2 }
          /\ Len(pipe.response.citations) = 2
       \/ /\ CitedNumbers(pipe.response.answer) = { 0, 1, MaxCiteNumber }
          /\ Len(pipe.response.citations) = 1

\* C20: no two entries of the source list have the same canonical URL key,
\* the key being computed from the URL the entry carries.
C20_SourcesUniqueByKey ==
    \A i, j \in 1..Len(pipe.sources) :
        NormalizeUrlForDedupe(pipe.sources[i].url).key
          = NormalizeUrlForDedupe(pipe.sources[j].url).key
        => i = j

\* C21: while the Tavily calls of a run are still pending, the Brave calls of
\* the run (when Brave is configured) have been issued already: the start of
\* one provider's calls does not wait for the other provider's calls to settle.
C21_ProvidersStartTogether ==
    pipe.pc = "tavily" /\ pipe.env.BRAVE_SEARCH_API_KEY
    => CallsOfKind(pipe, "brave") # << >>

\* C22: a run whose search calls have settled, however many of them were
\* rejected, goes on towards answer composition and never fails there; its
\* source list is empty exactly when no search call was fulfilled.
C22_Step ==
    /\ pipe.pc \in { "tavily", "brave" }
       => pipe'.pc \in { "brave", "fetch", "facts", "compose" }
    /\ pipe'.pc \in { "fetch", "facts", "compose" }
       => (pipe'.sources = << >> <=> pipe'.fulfilled = 0)

C22_SearchFailuresAbsorbed == [][C22_Step]_vars

\* the run composes although some, but not all, of its search calls of both
\* providers were rejected
C22_Witness ==
    /\ pipe.pc \in { "facts", "compose" }
    /\ CallsOfKind(pipe, "tavily") # << >>
    /\ CallsOfKind(pipe, "brave") # << >>
    /\ pipe.fulfilled > 0
    /\ pipe.fulfilled < Len(CallsOfKind(pipe, "tavily")) + Len(CallsOfKind(pipe, "brave"))
    /\ pipe.sources # << >>

----------------------------------------------------------------------------
\* lib/ssrf.ts and fetchPageText: one page fetch behind the SSRF guard.
\* A URL is [scheme, name, ip]: scheme "" when new URL() throws; ip the four
\* numbers of a dotted-decimal host and << >> for any other host, whose
\* labels are name (net.isIP is 0 for the bracketed IPv6 hosts of a URL, which
\* are names here). A resolved address is [version, a, b, head]: its first two
\* numbers (IPv4) or its first characters (IPv6); version 0 is no IP address.
\* io.requests are the URLs an HTTP request was issued for, in order.

\* isPrivateIp: isPrivateIpv4, isPrivateIpv6, and anything that is no address
IsPrivateIp(addr) ==
    CASE addr.version = 4 ->
             \/ addr.a = 10
             \/ addr.a = 127
             \/ addr.a = 169 /\ addr.b = 254
             \/ addr.a = 192 /\ addr.b = 168
             \/ addr.a = 172 /\ addr.b >= 16 /\ addr.b <= 31
      [] addr.version = 6 -> addr.head \in { "::1", "fc", "fd", "fe80" }
      [] OTHER -> TRUE

\* assertSafeUrl up to its await: a throw, the URL itself (a literal IP host),
\* or the DNS lookup of the host
AssertSafeUrl(url) ==
    IF url.scheme = "" THEN Throws(400, "Invalid URL")
    ELSE IF url.scheme \notin { "http", "https" }
    THEN Throws(400, "Only http/https URLs are allowed")
    ELSE IF url.name = << >> /\ url.ip = << >> THEN Throws(400, "Invalid URL hostname")
    ELSE IF \/ url.name = << "localhost" >>
            \/ Len(url.name) >= 2 /\ url.name[Len(url.name)] = "local"
    THEN Throws(400, "Unsafe URL host")
    ELSE IF url.ip # << >>
    THEN IF IsPrivateIp([ version |-> 4, a |-> url.ip[1], b |-> url.ip[2], head |-> "" ])
         THEN Throws(400, "Unsafe URL IP")
         ELSE Succeeds(<< url >>)
    ELSE Succeeds(<< >>)

\* fetchPageText(url) is called: assertSafeUrl runs to its lookup, or returns
\* and fetchWithTimeout issues the request for the URL
FetchBegin ==
    /\ io.kind = "fetch"
    /\ io.pc = "start"
    /\ io' = LET safe == AssertSafeUrl(io.url)
             IN IF ~safe.ok THEN [ io EXCEPT !.pc = "failed", !.error = safe.error ]
                ELSE IF safe.value = << >> THEN [ io EXCEPT !.pc = "lookup" ]
                ELSE [ io EXCEPT !.pc = "request", !.requests = << io.url >> ]
    /\ UNCHANGED << routeVars, pipe >>

\* dns.promises.lookup settles: every address must be public; then
\* fetchWithTimeout issues the request for the URL
LookupSettles_FirstAddressOnly(outcome) ==
    /\ io.kind = "fetch"
    /\ io.pc = "lookup"
    /\ io' = IF ~outcome.ok THEN [ io EXCEPT !.pc = "failed", !.error = outcome.error ]
             ELSE IF outcome.value = << >>
             THEN [ io EXCEPT !.pc = "failed",
                              !.error = Throws(400, "Unable to resolve URL host").error ]
             ELSE IF IsPrivateIp(outcome.value[1])
             THEN [ io EXCEPT !.pc = "failed", !.resolved = outcome.value,
                              !.error = Throws(400, "Unsafe URL resolved IP").error ]
             ELSE [ io EXCEPT !.pc = "request", !.resolved = outcome.value,
                              !.requests = << io.url >> ]
    /\ UNCHANGED << routeVars, pipe >>

LookupSettles(outcome) ==
    /\ io.kind = "fetch"
    /\ io.pc = "lookup"
    /\ io' = IF ~outcome.ok THEN [ io EXCEPT !.pc = "failed", !.error = outcome.error ]
             ELSE IF outcome.value = << >>
             THEN [ io EXCEPT !.pc = "failed",
                              !.error = Throws(400, "Unable to resolve URL host").error ]
             ELSE IF \E i \in 1..Len(outcome.value) : IsPrivateIp(outcome.value[i])
             THEN [ io EXCEPT !.pc = "failed", !.resolved = outcome.value,
                              !.error = Throws(400, "Unsafe URL resolved IP").error ]
             ELSE [ io EXCEPT !.pc = "request", !.resolved = outcome.value,
                              !.requests = << io.url >> ]
    /\ UNCHANGED << routeVars, pipe >>

\* the request settles. redirect: "follow" makes fetch issue the request for
\* the Location of a redirect itself, up to MaxRedirects times; a final
\* response is res = [status, html, bytes]; res.status 0 is a network error
\* or the timeout
FetchResponds(res) ==
    /\ io.kind = "fetch"
    /\ io.pc = "request"
    /\ io' = IF res.redirect
             THEN IF Len(io.requests) <= MaxRedirects
                  THEN [ io EXCEPT !.requests = Append(@, res.location) ]
                  ELSE [ io EXCEPT !.pc = "failed", !.error = Throws(0, "redirect count exceeded").error ]
             ELSE IF res.status = 0
             THEN [ io EXCEPT !.pc = "failed", !.error = Throws(0, "fetch failed").error ]
             ELSE IF res.status < 200 \/ res.status > 299
             THEN [ io EXCEPT !.pc = "failed",
                              !.error = Throws(502, "Failed to fetch source").error ]
             ELSE IF ~res.html
             THEN [ io EXCEPT !.pc = "failed",
                              !.error = Throws(415, "Unsupported content type").error ]
             ELSE IF res.bytes > FetchMaxBytes
             THEN [ io EXCEPT !.pc = "failed",
                              !.error = Throws(413, "Fetched document too large").error ]
             ELSE [ io EXCEPT !.pc = "done" ]
    /\ UNCHANGED << routeVars, pipe >>

----------------------------------------------------------------------------
\* services/llm/openrouter.ts: one openRouterChatCompletion call.
\* A response is res = [status, retryable, retryAfter, body]: status 0 when
\* fetchWithTimeout throws (retryable: isRetryableNetworkError), retryAfter the
\* characters of the Retry-After header (<< >> without one), body "content",
\* "notJson" or "noContent". io.sent counts the HTTP attempts, io.waits are
\* the sleeps.

\* Number.parseInt(h, 10): an optional sign and the leading digits; {} is NaN
ParseInt(h) ==
    LET digit == [ c \in { "0", "1", "2", "3", "4", "5", "6", "7", "8", "9" } |->
                     CASE c = "0" -> 0 [] c = "1" -> 1 [] c = "2" -> 2 [] c = "3" -> 3
                       [] c = "4" -> 4 [] c = "5" -> 5 [] c = "6" -> 6 [] c = "7" -> 7
                       [] c = "8" -> 8 [] OTHER -> 9 ]
        signed == h # << >> /\ h[1] \in { "+", "-" }
        s == IF signed THEN 1 ELSE 0
        n == CHOOSE k \in 0..(Len(h) - s) :
                 /\ \A i \in 1..k : h[s + i] \in DOMAIN digit
                 /\ k < Len(h) - s => h[s + k + 1] \notin DOMAIN digit
        val[k \in 0..n] == IF k = 0 THEN 0 ELSE val[k - 1] * 10 + digit[h[s + k]]
    IN IF n = 0 THEN {}
       ELSE IF signed /\ h[1] = "-" THEN { 0 - val[n] }
       ELSE { val[n] }

\* getRetryAfterMs: {} is null
GetRetryAfterMs_Uncapped(res) ==
    LET h == res.retryAfter
    IN IF h = << >> THEN {}
       ELSE IF ParseInt(h) = {} THEN {}
       ELSE LET seconds == CHOOSE x \in ParseInt(h) : TRUE
            IN IF seconds <= 0 THEN {} ELSE { seconds * 1000 }

\* getRetryAfterMs: {} is null
GetRetryAfterMs(res) ==
    LET h == res.retryAfter
    IN IF h = << >> THEN {}
       ELSE IF ParseInt(h) = {} THEN {}
       ELSE LET seconds == CHOOSE x \in ParseInt(h) : TRUE
            IN IF seconds <= 0 THEN {}
               ELSE { IF seconds * 1000 < RetryAfterCapMs THEN seconds * 1000
                      ELSE RetryAfterCapMs }

\* what an attempt leads to: the call sleeps and goes on, throws or returns
Sleep(ms) == [ act |-> "sleep", ms |-> ms, error |-> NoError ]

\* if (!res.ok): more is attempt < maxAttempts
OnStatus_AuthRetried(res, more) ==
    IF more /\ res.status \in { 401, 403, 429, 502, 503, 504 }
    THEN IF GetRetryAfterMs(res) = {} THEN Sleep(DefaultBackoffMs)
         ELSE Sleep(CHOOSE ms \in GetRetryAfterMs(res) : TRUE)
    ELSE IF res.status \in { 401, 403 }
    THEN [ Sleep(0) EXCEPT !.act = "throw",
               !.error = Throws(401, "LLM provider authentication failed").error ]
    ELSE [ Sleep(0) EXCEPT !.act = "throw",
               !.error = Throws(502, "LLM provider error").error ]

OnStatus(res, more) ==
    IF res.status \in { 401, 403 }
    THEN [ Sleep(0) EXCEPT !.act = "throw",
               !.error = Throws(401, "LLM provider authentication failed").error ]
    ELSE IF more /\ res.status \in { 429, 502, 503, 504 }
    THEN IF GetRetryAfterMs(res) = {} THEN Sleep(DefaultBackoffMs)
         ELSE Sleep(CHOOSE ms \in GetRetryAfterMs(res) : TRUE)
    ELSE [ Sleep(0) EXCEPT !.act = "throw",
               !.error = Throws(502, "LLM provider error").error ]

\* JSON.parse(text) and chatCompletionResponseSchema.safeParse(json)
OnBody_NoRetry(res, more) ==
    IF res.body = "notJson"
    THEN [ Sleep(0) EXCEPT !.act = "throw",
               !.error = Throws(502, "Invalid JSON from LLM provider").error ]
    ELSE IF res.body = "noContent"
    THEN [ Sleep(0) EXCEPT !.act = "throw",
               !.error = Throws(502, "Unexpected response from LLM provider").error ]
    ELSE [ Sleep(0) EXCEPT !.act = "return" ]

OnBody(res, more) ==
    IF res.body = "notJson"
    THEN IF more THEN Sleep(MalformedBackoffMs)
         ELSE [ Sleep(0) EXCEPT !.act = "throw",
                    !.error = Throws(502, "Invalid JSON from LLM provider").error ]
    ELSE IF res.body = "noContent"
    THEN IF more THEN Sleep(MalformedBackoffMs)
         ELSE [ Sleep(0) EXCEPT !.act = "throw",
                    !.error = Throws(502, "Unexpected response from LLM provider").error ]
    ELSE [ Sleep(0) EXCEPT !.act = "return" ]

\* an attempt settles: the call returns, throws, or sleeps before the next
\* attempt; an error of fetchWithTimeout is rethrown as it is
ChatResponds(res) ==
    LET more == io.attempt < MaxAttempts
        next == IF res.status = 0
                THEN IF more /\ res.retryable THEN Sleep(DefaultBackoffMs)
                     ELSE [ Sleep(0) EXCEPT !.act = "throw",
                                !.error = Throws(0, "fetch failed").error ]
                ELSE IF res.status < 200 \/ res.status > 299 THEN OnStatus(res, more)
                ELSE OnBody(res, more)
    IN /\ io.kind = "chat"
       /\ io.pc = "request"
       /\ io' = CASE next.act = "sleep" ->
                      [ io EXCEPT !.pc = "sleep", !.res = res, !.waits = Append(@, next.ms) ]
                  [] next.act = "throw" ->
                      [ io EXCEPT !.pc = "failed", !.res = res, !.error = next.error ]
                  [] OTHER -> [ io EXCEPT !.pc = "done", !.res = res ]
       /\ UNCHANGED << routeVars, pipe >>

\* the sleep is over: continue, the next attempt is sent
SleepElapses_SameAttempt ==
    /\ io.kind = "chat"
    /\ io.pc = "sleep"
    /\ io' = [ io EXCEPT !.pc = "request", !.sent = @ + 1 ]
    /\ UNCHANGED << routeVars, pipe >>

SleepElapses ==
    /\ io.kind = "chat"
    /\ io.pc = "sleep"
    /\ io' = [ io EXCEPT !.pc = "request", !.attempt = @ + 1, !.sent = @ + 1 ]
    /\ UNCHANGED << routeVars, pipe >>

----------------------------------------------------------------------------
\* SpecIo: one fetchPageText call for each URL, or one
\* openRouterChatCompletion call, with every outcome of its I/O

InitIo ==
    /\ now = 0
    /\ hits = EmptyFn
    /\ askCache = << >>
    /\ askCacheOps = 0
    /\ askInFlight = EmptyFn
    /\ anonProfiles = << >>
    /\ anonProfileOps = 0
    /\ pending = EmptyFn
    /\ runs = EmptyFn
    /\ out = {}
    /\ arrived = {}
    /\ nodeEnv = "production"
    /\ reqsInWindow = EmptyFn
    /\ okCount = EmptyFn
    /\ pipe = None
    /\ \/ \E scheme \in { "", "http", "https", "ftp" },
             name \in { << >>, << "localhost" >>, << "printer", "local" >>, << "local" >>,
                        << "example", "com" >>, << "[::1]" >> },
             ip \in { << >>, << 10, 0, 0, 5 >>, << 172, 16, 0, 1 >>, << 172, 32, 0, 1 >>,
                      << 169, 254, 169, 254 >>, << 93, 184, 216, 34 >> } :
             /\ name = << >> \/ ip = << >>
             /\ io = [ kind |-> "fetch", pc |-> "start",
                       url |-> [ scheme |-> scheme, name |-> name, ip |-> ip ],
                       resolved |-> << >>, requests |-> << >>, error |-> NoError ]
       \/ io = [ kind |-> "chat", pc |-> "request", attempt |-> 1, sent |-> 1,
                 waits |-> << >>, res |-> [ status |-> 0, retryable |-> FALSE, retryAfter |-> << >>,
                          body |-> "" ],
                 error |-> NoError ]

NextIo ==
    \/ FetchBegin
    \/ \E outcome \in
            { Throws(0, "ENOTFOUND") } \cup
            { Succeeds(a) : a \in
                LET Addr(version, a, b, head) ==
                        [ version |-> version, a |-> a, b |-> b, head |-> head ]
                    public4 == Addr(4, 93, 184, "")
                    private4 == Addr(4, 192, 168, "")
                IN { << >>, << public4 >>, << private4 >>, << public4, private4 >>,
                     << public4, Addr(6, 0, 0, "2001") >>, << public4, Addr(6, 0, 0, "fd") >>,
                     << Addr(6, 0, 0, "::1") >>, << public4, Addr(0, 0, 0, "") >> } } :
            LookupSettles(outcome)
    \/ \E res \in
            { [ redirect |-> TRUE, location |-> [ scheme |-> "http", name |-> << >>, ip |-> ip ],
                status |-> 302, html |-> FALSE, bytes |-> 0 ] :
                ip \in { << 169, 254, 169, 254 >>, << 93, 184, 216, 34 >> } } \cup
            { [ redirect |-> FALSE, location |-> [ scheme |-> "", name |-> << >>, ip |-> << >> ],
                status |-> status, html |-> html, bytes |-> bytes ] :
                status \in { 0, 200, 404 }, html \in BOOLEAN,
                bytes \in { FetchMaxBytes, FetchMaxBytes + 1 } } :
            FetchResponds(res)
    \/ \E res \in
            { [ status |-> 0, retryable |-> r, retryAfter |-> << >>, body |-> "" ] :
                r \in BOOLEAN } \cup
            { [ status |-> status, retryable |-> FALSE, retryAfter |-> h, body |-> body ] :
                status \in { 200, 204, 400, 401, 403, 429, 500, 502, 503, 504 },
                h \in { << >>, << "0" >>, << "-", "3" >>, << "5" >>, << "1", "0" >>,
                        << "1", "1" >>, << "1", ".", "5" >>, << "W", "e", "d" >> },
                body \in { "content", "notJson", "noContent" } } :
            ChatResponds(res)
    \/ SleepElapses

SpecIo == InitIo /\ [][NextIo]_vars

----------------------------------------------------------------------------
\* Claims about fetchPageText and openRouterChatCompletion, checked on SpecIo

\* what the SSRF guard approves: an http(s) URL whose host is not local and is
\* a public literal address, or a name whose resolved addresses, at least
\* one, are all public
GuardApproves(url, resolved) ==
    /\ url.scheme \in { "http", "https" }
    /\ url.name # << "localhost" >>
    /\ ~(Len(url.name) >= 2 /\ url.name[Len(url.name)] = "local")
    /\ IF url.ip # << >>
       THEN ~(\/ url.ip[1] \in { 10, 127 }
              \/ url.ip[1] = 169 /\ url.ip[2] = 254
              \/ url.ip[1] = 192 /\ url.ip[2] = 168
              \/ url.ip[1] = 172 /\ url.ip[2] \in 16..31)
       ELSE /\ url.name # << >>
            /\ resolved # << >>
            /\ \A i \in 1..Len(resolved) :
                  /\ resolved[i].version \in { 4, 6 }
                  /\ resolved[i].version = 4
                     => ~(\/ resolved[i].a \in { 10, 127 }
                          \/ resolved[i].a = 169 /\ resolved[i].b = 254
                          \/ resolved[i].a = 192 /\ resolved[i].b = 168
                          \/ resolved[i].a = 172 /\ resolved[i].b \in 16..31)
                  /\ resolved[i].version = 6
                     => resolved[i].head \notin { "::1", "fc", "fd", "fe80" }

\* C23 as stated: every URL an HTTP request is issued for is the URL the SSRF
\* guard was called with, and the guard approved it.
C23_EveryRequestApproved ==
    io.kind = "fetch"
    => \A i \in 1..Len(io.requests) :
          io.requests[i] = io.url /\ GuardApproves(io.url, io.resolved)

\* C23, amended: the request fetchPageText issues, the first one, is for the
\* URL it was called with and is issued after the SSRF guard approved that
\* URL; when the guard rejects the URL no request is issued at all. (The
\* requests for redirect targets are issued by fetch without the guard.)
C23_FirstRequestApproved ==
    io.kind = "fetch"
    => /\ io.requests # << >>
          => io.requests[1] = io.url /\ GuardApproves(io.url, io.resolved)
       /\ io.pc = "failed" /\ io.error.status = 400 => io.requests = << >>

\* a host name with two public addresses was approved and requested, and the
\* response redirected fetch to the link-local address
C23_Witness ==
    /\ io.kind = "fetch"
    /\ io.url.name = << "example", "com" >>
    /\ Len(io.resolved) = 2
    /\ Len(io.requests) = 2
    /\ io.requests[2].ip = << 169, 254, 169, 254 >>

\* C24: one openRouterChatCompletion call sends at most 2 HTTP attempts:
\* whatever the second attempt settles with, the call returns or throws, and
\* it returns only on a 2xx response with choices[0].message.content.
C24_Step ==
    io.kind = "chat"
    => /\ io'.sent <= 2
       /\ io.pc = "request" /\ io.sent = 2 => io'.pc \in { "done", "failed" }
       /\ io.pc \in { "done", "failed" } => io' = io
       /\ io'.pc = "done"
          => io'.res.status \in 200..299 /\ io'.res.body = "content"

C24_AtMostTwoAttempts == [][C24_Step]_vars

\* the first attempt failed in one way (default backoff), the second in
\* another (a 2xx response that is not JSON), and the call has thrown
C24_Witness ==
    /\ io.kind = "chat"
    /\ io.pc = "failed"
    /\ io.sent = 2
    /\ io.waits = << 350 >>
    /\ io.res.status = 200
    /\ io.res.body = "notJson"

\* C25: an attempt answered with 401 or 403 makes the call throw HttpError 401
\* in that step, with no sleep and no further attempt.
C25_Step ==
    io.kind = "chat" /\ io.pc = "request" /\ io'.res.status \in { 401, 403 }
    => /\ io'.pc = "failed"
       /\ io'.error.status = 401
       /\ io'.waits = io.waits
       /\ io'.sent = io.sent

C25_AuthNotRetried == [][C25_Step]_vars

\* a 403 on the first attempt, with a Retry-After header, has made the call
\* throw 401
C25_Witness ==
    /\ io.kind = "chat"
    /\ io.pc = "failed"
    /\ io.sent = 1
    /\ io.res.status = 403
    /\ io.res.retryAfter = << "5" >>
    /\ io.error.status = 401

\* the last sleep of the call
LastWait(c) == c.waits[Len(c.waits)]

\* C26: an attempt answered with a non-2xx status other than 401 and 403 is
\* retried exactly when it is the first attempt and the status is 429, 502,
\* 503 or 504; the sleep before the retry is the seconds of the Retry-After
\* header, at most 10 s, when the header is a positive integer, and 350 ms
\* otherwise; in every other case the call throws HttpError 502.
C26_Step ==
    LET res == io'.res
    IN /\ io.kind = "chat"
       /\ io.pc = "request"
       /\ res.status \notin { 0, 401, 403 }
       /\ res.status \notin 200..299
       => IF io.attempt = 1 /\ res.status \in { 429, 502, 503, 504 }
          THEN /\ io'.pc = "sleep"
               /\ Len(io'.waits) = Len(io.waits) + 1
               /\ LastWait(io') = CASE res.retryAfter = << "5" >> -> 5000
                                    [] res.retryAfter = << "1", "0" >> -> 10000
                                    [] res.retryAfter = << "1", "1" >> -> 10000
                                    [] OTHER -> 350
          ELSE io'.pc = "failed" /\ io'.error.status = 502

C26_StatusRetryPolicy == [][C26_Step]_vars

\* C27: an attempt answered with a 2xx response whose body is not JSON or
\* lacks choices[0].message.content makes the call sleep 200 ms and go on when
\* it is the first attempt, and throw HttpError 502 when it is the second.
C27_Step ==
    LET res == io'.res
    IN /\ io.kind = "chat"
       /\ io.pc = "request"
       /\ res.status \in 200..299
       /\ res.body \in { "notJson", "noContent" }
       => IF io.attempt = 1
          THEN /\ io'.pc = "sleep"
               /\ io'.waits = << 200 >>
               /\ io'.sent = 1
          ELSE io'.pc = "failed" /\ io'.error.status = 502 /\ io'.sent = 2

C27_MalformedRetriedOnce == [][C27_Step]_vars

\* two malformed 2xx responses in a row: one sleep of 200 ms, then the throw
C27_Witness ==
    /\ io.kind = "chat"
    /\ io.pc = "failed"
    /\ io.sent = 2
    /\ io.waits = << 200 >>
    /\ io.res.status = 204
    /\ io.res.body = "noContent"
    /\ io.error.status = 502

\* C26, amended: as C26, but the seconds of the Retry-After header are the
\* integer the header starts with, as Number.parseInt reads it ("1.5" is one
\* second); the sleep is 350 ms when the header is missing or that integer
\* is missing, zero or negative.
C26_AmendedStep ==
    LET res == io'.res
    IN /\ io.kind = "chat"
       /\ io.pc = "request"
       /\ res.status \notin { 0, 401, 403 }
       /\ res.status \notin 200..299
       => IF io.attempt = 1 /\ res.status \in { 429, 502, 503, 504 }
          THEN /\ io'.pc = "sleep"
               /\ Len(io'.waits) = Len(io.waits) + 1
               /\ LastWait(io') = CASE res.retryAfter = << "5" >> -> 5000
                                    [] res.retryAfter = << "1", "0" >> -> 10000
                                    [] res.retryAfter = << "1", "1" >> -> 10000
                                    [] res.retryAfter = << "1", ".", "5" >> -> 1000
                                    [] OTHER -> 350
          ELSE io'.pc = "failed" /\ io'.error.status = 502

C26_LeadingIntegerRetryPolicy == [][C26_AmendedStep]_vars

\* a 429 with Retry-After: 11 on the first attempt: the call sleeps 10 s
C26_Witness ==
    /\ io.kind = "chat"
    /\ io.pc = "sleep"
    /\ io.res.status = 429
    /\ io.res.retryAfter = << "1", "1" >>
    /\ io.waits = << 10000 >>

\* C28: every successful response carries between 1 and 3 follow-ups, each
\* of at most 140 characters, whether they come from the reply's JSON array,
\* from its lines or from the templates.
C28_FollowUpBounds ==
    pipe.pc = "done"
    => /\ Len(pipe.response.followUps) \in 1..3
       /\ \A i \in 1..Len(pipe.response.followUps) : Len(pipe.response.followUps[i]) <= 140

\* C29: canonicalization is idempotent: for every URL a run has canonicalized
\* (the entries of byNormUrl hold the key and the cleaned URL it returned),
\* canonicalizing the cleaned URL gives the same key and the same cleaned URL.
C29_CanonicalizationIdempotent ==
    \A i \in 1..Len(pipe.byNormUrl) :
        NormalizeUrlForDedupe(pipe.byNormUrl[i].v.url)
          = [ key |-> pipe.byNormUrl[i].k, cleanedUrl |-> pipe.byNormUrl[i].v.url ]

\* C30: every error response carries the request's requestId; a response
\* made from a typed error (the schema error or an HttpError a run ended
\* with) has that error's status and that error's own message; status 500
\* is sent for errors without a status only, and only such a response has
\* the message "Internal Server Error", which it has in production. The
\* typed errors of the runs have pairwise different statuses, so the status
\* of a response tells which error it was made from.
C30_ErrorEnvelope ==
    LET errors == { InvalidBody } \cup { outcome.error : outcome \in { o \in Outcomes : ~o.ok } }
        typed == { e \in errors : e.status # 0 }
        unknown == { e \in errors : e.status = 0 }
    IN \A o \in out :
         o.status # 200
         => /\ o.body.requestId = o.rid
            /\ \A e \in typed : o.status = e.status => o.body.message = e.message
            /\ o.status = 500
               => \E e \in unknown :
                     o.body.message = IF nodeEnv = "production" THEN "Internal Server Error"
                                      ELSE e.message
            /\ o.body.message = "Internal Server Error"
               => o.status = 500 /\ nodeEnv = "production"

----------------------------------------------------------------------------
\* SpecCalls: one call of a function of askPipeline.ts for each input of a
\* bounded set: the source selection over the candidates of a search, and
\* sanitizeFollowUps over the lines of a reply

\* the selection block of askPipeline runs on the candidates upserted so far
SelectReturns ==
    /\ io.kind = "select"
    /\ io.pc = "called"
    /\ io' = [ io EXCEPT !.pc = "returned",
                         !.result = SelectSources(io.byNormUrl, io.wantsFresh) ]
    /\ UNCHANGED << routeVars, pipe >>

\* sanitizeFollowUps(items) returns
SanitizeReturns ==
    /\ io.kind = "sanitize"
    /\ io.pc = "called"
    /\ io' = [ io EXCEPT !.pc = "returned", !.result = SanitizeFollowUps(io.items) ]
    /\ UNCHANGED << routeVars, pipe >>

\* the results of a search, in four groups: four pages of a.gov, three of
\* b.edu, one page each of four sites, one page each of four more; the
\* candidates are the upserted results of some of the groups, in this order
\* or in the reverse order. The items to sanitize are up to MaxItems lines
\* of a reply: questions, one of them again in capitals and quoted, one
\* numbered, and a line that is only a bullet
InitCalls ==
    /\ now = 0
    /\ hits = EmptyFn
    /\ askCache = << >>
    /\ askCacheOps = 0
    /\ askInFlight = EmptyFn
    /\ anonProfiles = << >>
    /\ anonProfileOps = 0
    /\ pending = EmptyFn
    /\ runs = EmptyFn
    /\ out = {}
    /\ arrived = {}
    /\ nodeEnv = "production"
    /\ reqsInWindow = EmptyFn
    /\ okCount = EmptyFn
    /\ pipe = None
    /\ LET Result(site, path, tokenHits, ageDays) ==
               [ title |-> path, url |-> Url("https", 0, site, path, FALSE, FALSE),
                 snippet |-> [ hits |-> tokenHits, ageDays |-> ageDays ],
                 extractedText |-> None ]
           groups ==
               << << Result("a.gov", "/1", 1, 0 - 1), Result("a.gov", "/2", 3, 40),
                     Result("a.gov", "/3", 0, 1), Result("a.gov", "/4", 1, 0 - 1) >>,
                  << Result("b.edu", "/1", 2, 0 - 1), Result("b.edu", "/2", 2, 5),
                     Result("b.edu", "/3", 4, 0 - 1) >>,
                  << Result("c.org", "/1", 4, 0 - 1), Result("d.com", "/1", 6, 2),
                     Result("e.com", "/1", 1, 0 - 1), Result("f.com", "/1", 1, 20) >>,
                  << Result("g.com", "/1", 0, 0 - 1), Result("h.com", "/1", 5, 0 - 1),
                     Result("i.com", "/1", 2, 9), Result("medium.com", "/1", 7, 0) >> >>
           Of(chosen) ==
               LET cat[g \in 0..Len(groups)] ==
                       IF g = 0 THEN << >>
                       ELSE cat[g - 1] \o (IF g \in chosen THEN groups[g] ELSE << >>)
               IN cat[Len(groups)]
           Reverse(s) == [ i \in 1..Len(s) |-> s[Len(s) + 1 - i] ]
           lines == { "Why is it so?", "\"WHY IS IT SO?\"", "2. What comes next?",
                      "And then?", " - " }
       IN \/ \E chosen \in SUBSET (1..Len(groups)), reversed \in BOOLEAN,
                wantsFresh \in BOOLEAN :
                io = [ kind |-> "select", pc |-> "called",
                       byNormUrl |-> UpsertResults(<< >>,
                                         IF reversed THEN Reverse(Of(chosen)) ELSE Of(chosen),
                                         wantsFresh),
                       wantsFresh |-> wantsFresh, result |-> << >> ]
          \/ \E n \in 0..MaxItems : \E items \in [ 1..n -> lines ] :
                io = [ kind |-> "sanitize", pc |-> "called", items |-> items,
                       result |-> << >> ]

NextCalls ==
    \/ SelectReturns
    \/ SanitizeReturns

SpecCalls == InitCalls /\ [][NextCalls]_vars

----------------------------------------------------------------------------
\* Claims about the functions of askPipeline.ts, checked on SpecCalls

\* the candidates of the call, and the sort's order on their indexes: a
\* higher score first, an earlier insertion first among equal scores
Candidates == [ i \in 1..Len(io.byNormUrl) |-> io.byNormUrl[i].v ]

RankedBefore(i, j) ==
    \/ Candidates[i].score > Candidates[j].score
    \/ Candidates[i].score = Candidates[j].score /\ i < j

\* the candidates that have fewer than cap candidates of their host before them
WithinHostCap(cap) ==
    { i \in 1..Len(Candidates) :
        Cardinality({ j \in 1..Len(Candidates) :
                        /\ RankedBefore(j, i)
                        /\ GetHostnameSafe(Candidates[j].url) = GetHostnameSafe(Candidates[i].url) })
          < cap }

\* C31: the source list has min(maxSources, number of candidates) entries
\* (maxSources 8 when fresh, else 6), each of them a candidate and none
\* twice; its first entries are the picks within the host cap (1 when fresh,
\* else 2), in descending score order; a host has more entries than the cap
\* only when fewer than maxSources candidates are within the cap.
C31_SourceSelection ==
    LET maxSources == IF io.wantsFresh THEN 8 ELSE 6
        cap == IF io.wantsFresh THEN 1 ELSE 2
        sources == io.result
        n == Len(Candidates)
        capped == IF Cardinality(WithinHostCap(cap)) < maxSources
                  THEN Cardinality(WithinHostCap(cap)) ELSE maxSources
        ScoreOf(s) == (CHOOSE c \in { Candidates[i] : i \in 1..n } : c.url = s.url).score
        HostCount(s, upto) ==
            Cardinality({ k \in 1..upto :
                            GetHostnameSafe(sources[k].url) = GetHostnameSafe(s.url) })
    IN io.kind = "select" /\ io.pc = "returned"
       => /\ Len(sources) = IF n < maxSources THEN n ELSE maxSources
          /\ \A k \in 1..Len(sources) : \E i \in 1..n : AsSource(Candidates[i]) = sources[k]
          /\ \A k, l \in 1..Len(sources) : sources[k].url = sources[l].url => k = l
          /\ \A k \in 1..capped :
                /\ \E i \in WithinHostCap(cap) : AsSource(Candidates[i]) = sources[k]
                /\ HostCount(sources[k], capped) <= cap
                /\ k < capped => ScoreOf(sources[k]) >= ScoreOf(sources[k + 1])
          /\ (\E k \in 1..Len(sources) : HostCount(sources[k], Len(sources)) > cap)
             => capped < maxSources

\* a selection of fewer than maxSources picks within the cap, filled up by
\* the second pass with a third page of a host
C31_Witness ==
    /\ io.kind = "select"
    /\ io.pc = "returned"
    /\ ~io.wantsFresh
    /\ Len(Candidates) > 6
    /\ Cardinality(WithinHostCap(2)) < 6
    /\ Len(io.result) = 6
    /\ \E k \in 1..6 :
          Cardinality({ l \in 1..6 : GetHostnameSafe(io.result[l].url)
                                       = GetHostnameSafe(io.result[k].url) }) = 3

\* C32: once the source list is made, it keeps its entries and their order:
\* a step of a run past the selection changes at most the extractedText of
\* the source whose fetch settles in that step, which is at an index within
\* maxFetch and had none; no source is added, removed or moved, no url,
\* title or snippet changes, and after the fetch stage the list stays as it
\* is for the composition calls and the citation mapping.
C32_Step ==
    pipe.pc \notin { "start", "models", "tavily", "brave" }
    => /\ Len(pipe'.sources) = Len(pipe.sources)
       /\ \A i \in 1..Len(pipe.sources) :
             \/ pipe'.sources[i] = pipe.sources[i]
             \/ /\ pipe.pc = "fetch"
                /\ i \in pipe.toFetch \ pipe'.toFetch
                /\ i <= MaxFetch(pipe.input)
                /\ pipe.sources[i].extractedText = None
                /\ pipe'.sources[i] = [ pipe.sources[i] EXCEPT !.extractedText = "excerpt" ]
       /\ pipe.pc = "fetch" => Cardinality(pipe.toFetch \ pipe'.toFetch) = 1

C32_SourcesStable == [][C32_Step]_vars

\* the fetch stage with a fetch pending, one rejected and one fulfilled
C32_Witness ==
    /\ pipe.pc = "fetch"
    /\ pipe.toFetch # {}
    /\ \E i, j \in 1..Len(pipe.sources) :
          /\ i \notin pipe.toFetch /\ j \notin pipe.toFetch
          /\ \A k \in { i, j } : \E c \in 1..Len(pipe.calls) :
                pipe.calls[c].kind = "fetch" /\ pipe.calls[c].url = pipe.sources[k].url
          /\ pipe.sources[i].extractedText = None
          /\ pipe.sources[j].extractedText = "excerpt"
\* C33: sanitizeFollowUps returns the first 3 non-empty cleaned items of its
\* input that differ from every earlier one when case is ignored: the
\* duplicates are dropped before the list is cut to 3. (The cleaned form of
\* an item is what the function returns for the item alone; two cleaned
\* items are the same when the function keeps one of the two.)
C33_DedupeBeforeCap ==
    LET Cleaned(i) == SanitizeFollowUps(<< io.items[i] >>)
        IsFirst(i) ==
            /\ Cleaned(i) # << >>
            /\ \A j \in 1..(i - 1) :
                  Cleaned(j) = << >> \/ Len(SanitizeFollowUps(Cleaned(j) \o Cleaned(i))) = 2
        firsts == Ascending({ i \in 1..Len(io.items) : IsFirst(i) })
    IN io.kind = "sanitize" /\ io.pc = "returned"
       => io.result = [ k \in 1..(IF Len(firsts) < 3 THEN Len(firsts) ELSE 3) |->
                          Cleaned(firsts[k])[1] ]
\* C34: when the fact-extraction call of the grounded path settles, the run
\* never fails at that step and issues exactly one composition call; when
\* the call threw or returned no fact with a citation in range, that call is
\* the direct composition (temperature 0.3, not strict), and when it
\* returns, the strict re-call follows exactly if its answer has a defect.
C34_Step ==
    LET llm == CallsOfKind(pipe, "llm")
        llmAfter == CallsOfKind(pipe', "llm")
    IN /\ pipe.pc = "facts"
          => /\ pipe'.pc = "compose"
             /\ Len(llmAfter) = Len(llm) + 1
             /\ llmAfter[Len(llmAfter)].purpose \in { "direct", "fromFacts" }
             /\ \A outcome \in { Throws(502, "LLM request failed"), Succeeds(<< >>),
                                  Succeeds(<< << MaxCiteNumber >> >>) } :
                   FactsSettle(outcome)
                   => /\ llmAfter[Len(llmAfter)].purpose = "direct"
                      /\ llmAfter[Len(llmAfter)].temperature = 3
                      /\ ~llmAfter[Len(llmAfter)].strict
       /\ /\ pipe.pc = "compose"
          /\ LlmCalls(pipe, "facts") # << >>
          /\ llm[Len(llm)].purpose = "direct"
          /\ pipe'.pc # "failed"
          => (pipe'.pc = "strict" <=> Defect(pipe'.answer, Len(pipe.sources)))

C34_FactsFailureFallsBack == [][C34_Step]_vars

\* a run whose fact extraction failed, whose direct composition returned an
\* answer with a defect, and which has issued the strict re-call
C34_Witness ==
    /\ pipe.pc = "strict"
    /\ Len(LlmCalls(pipe, "facts")) = 1
    /\ LlmCalls(pipe, "fromFacts") = << >>
    /\ Len(LlmCalls(pipe, "direct")) = 1
\* C36: a request changes the counter of its own key ("ask", its IP) only;
\* while the key's window is open (resetAtMs > now) the request, admitted or
\* rejected, adds one to count and leaves resetAtMs as it is; a step without
\* a request changes no counter.
C36_Step ==
    /\ arrived' = {} => hits' = hits
    /\ \A a \in arrived' :
          LET key == RLKey(a.ip)
          IN /\ DOMAIN hits' = DOMAIN hits \cup { key }
             /\ \A other \in DOMAIN hits : other # key => hits'[other] = hits[other]
             /\ key \in DOMAIN hits /\ hits[key].resetAtMs > now
                => /\ hits'[key].resetAtMs = hits[key].resetAtMs
                   /\ hits'[key].count = hits[key].count + 1

C36_LimiterFrame == [][C36_Step]_vars

\* a second rejected request of a window, at a later time than the window's
\* start, with the counter of another key in place
C36_Witness ==
    \E a \in arrived :
        /\ ~a.next
        /\ hits[RLKey(a.ip)].count = RLMax + 2
        /\ now > reqsInWindow[a.ip].start
        /\ hits[RLKey(a.ip)].resetAtMs = reqsInWindow[a.ip].start + RLWindowMs
        /\ \E other \in DOMAIN hits : other # RLKey(a.ip)
\* C37: the chat-completion calls of a run are, in this order, at most one
\* fact extraction, one composition (from facts or direct), one strict
\* re-call and one follow-up call: at most 4 calls, each of at most
\* MaxAttempts attempts, so at most 8 attempts; a run that returned by a
\* shortcut has made none, and a run on the non-grounded path at most 2.
C37_LlmCallBudget ==
    LET llm == CallsOfKind(pipe, "llm")
        Stage(c) == CASE c.purpose = "facts" -> 1
                      [] c.purpose \in { "fromFacts", "direct" } -> 2
                      [] c.purpose = "strict" -> 3
                      [] c.purpose = "followUps" -> 4
        shortcut == \/ ClassifyLocalClockIntent(pipe.input.question) # None
                    \/ DetectSafetyBlock(pipe.input.question) # None
    IN /\ Len(llm) <= 4
       /\ Len(llm) * MaxAttempts <= 8
       /\ \A i, j \in 1..Len(llm) : i < j => Stage(llm[i]) < Stage(llm[j])
       /\ shortcut => llm = << >>
       /\ ~(Mode(pipe.input) = "verified" /\ Len(pipe.sources) > 0) => Len(llm) <= 2

\* a run that has made all four calls
C37_Witness ==
    /\ pipe.pc = "done"
    /\ Len(CallsOfKind(pipe, "llm")) = 4

----------------------------------------------------------------------------
\* SpecPart: two clients behind different IPs; one of them may send the other
\* one's IP string as its anon ID.

PartArrive ==
    \E ip \in IPs, anonHdr \in { None, "10.0.0.1" },
       raw \in { RawBody("clock"), RawBody("python") } :
        /\ Cardinality(DOMAIN pending) < MaxPending
        /\ HitsBelow(ip, MaxHitsPart)
        /\ Request(ip, anonHdr, raw)
        /\ UNCHANGED pipe

NextPart == PartArrive \/ Settle

SpecPart == Init /\ [][NextPart]_vars

\* the partition string of a recorded request: its valid anon ID, else its IP
PartitionOf(x) == IF SafeAnonId(x.anon) # None THEN SafeAnonId(x.anon) ELSE x.ip

\* the validated body of a recorded request
BodyOf(x) == AskRequestParse(x.raw).input

\* C38: a request is served a stored entry exactly when a live entry was
\* stored under its partition string and validated body, and joins a run in
\* progress exactly when there is no such entry and the run's leader has the
\* same partition string and validated body; nothing else of the two requests
\* is compared, so an anon ID equal to another client's IP string shares that
\* client's entries.
C38_Step ==
    \A a \in arrived' :
        a.via \in { "cache", "follower", "leader" } =>
            LET stored == { e \in Entries(askCache) :
                              /\ e.v.expiresAtMs > now
                              /\ e.k[1] = PartitionOf(a)
                              /\ e.k[2] = BodyOf(a) }
                leaders == { l \in DOMAIN pending :
                              /\ pending[l].role = "leader"
                              /\ PartitionOf(pending[l]) = PartitionOf(a)
                              /\ BodyOf(pending[l]) = BodyOf(a) }
            IN /\ a.via = "cache" <=> stored # {}
               /\ a.via = "cache" =>
                     \E r \in out' : \E e \in stored :
                         r.rid = a.rid /\ r.body = OkBody(e.v.value)
               /\ a.via = "follower" <=> (stored = {} /\ leaders # {})
               /\ a.via = "follower" => pending'[a.rid].promise \in leaders

C38_CachePartitioning == [][C38_Step]_vars

\* the first request ever to carry the anon ID "10.0.0.1" comes from the other
\* IP and is served the entry stored for the client at 10.0.0.1
C38_Witness ==
    \E a \in arrived :
        /\ a.via = "cache"
        /\ a.ip = "10.0.0.2"
        /\ a.anon = "10.0.0.1"
        /\ MapGet(anonProfiles, "10.0.0.1").askCount = 1

----------------------------------------------------------------------------
\* SpecAsk: the route and the askPipeline runs it starts, one run at a time.
\* A leader's handler calls askPipeline, which runs to its first await in the
\* same turn; when the run has returned or thrown, the promise's continuations
\* run before anything else does.

\* the questions behind the question tokens of the route's requests
QuestionWords(token) ==
    CASE token = "clock" -> << "what", "time", "is", "it" >>
      [] token = "bomb" -> << "how", "to", "make", "a", "bomb" >>
      [] OTHER -> << "capital", "of", "france" >>

\* the locals of askPipeline(input) before its first statement; start = Date.now()
NewRun(env, input, t) ==
    [ pc |-> "start",
      input |-> [ question |-> QuestionWords(input.question), mode |-> None,
                  language |-> input.language, useWeb |-> {}, model |-> None ],
      env |-> env, model |-> None, byNormUrl |-> << >>, sources |-> << >>,
      toFetch |-> {}, answer |-> << >>, calls |-> << >>,
      fulfilled |-> 0, response |-> NoResponse, start |-> t ]

\* what the run's promise settles with at time t: the AskResponse with its
\* latencyMs, or the error thrown. clockMs is the instant a local-clock
\* answer's date and time were formatted from, 0 in every other answer.
OutcomeOf(p, t) ==
    IF p.pc = "done"
    THEN Succeeds([ model |-> p.response.model, text |-> p.response.text,
                    answer |-> p.response.answer, citations |-> p.response.citations,
                    followUps |-> p.response.followUps,
                    clockMs |-> IF p.response.model = << "local-clock" >> THEN t ELSE 0,
                    latencyMs |-> IF p.calls = << >> THEN 0 ELSE t - p.start ])
    ELSE Fails(p.response.status, p.response.message)

InitAsk ==
    /\ now = 0
    /\ hits = EmptyFn
    /\ askCache = << >>
    /\ askCacheOps = 0
    /\ askInFlight = EmptyFn
    /\ anonProfiles = << >>
    /\ anonProfileOps = 0
    /\ pending = EmptyFn
    /\ runs = EmptyFn
    /\ out = {}
    /\ arrived = {}
    /\ nodeEnv = "production"
    /\ reqsInWindow = EmptyFn
    /\ okCount = EmptyFn
    /\ io = None
    /\ pipe = [ NewRun([ OPENROUTER_API_KEY |-> TRUE, OPENROUTER_DEFAULT_MODEL |-> None,
                         TAVILY_API_KEY |-> TRUE, BRAVE_SEARCH_API_KEY |-> TRUE ],
                       RawBody("clock"), 0) EXCEPT !.pc = "idle" ]

\* a request arrives; as a leader its handler calls askPipeline
AskArrive ==
    \E raw \in { RawBody("clock"), RawBody("bomb"), RawBody("capital") } :
        /\ Cardinality(DOMAIN pending) < MaxPending
        /\ HitsBelow("10.0.0.1", MaxHitsPart)
        /\ \/ pipe.pc = "idle"
           \/ /\ pipe.pc \notin { "done", "failed" }
              /\ pipe.input.question = QuestionWords(Trim(raw.question))
        /\ Request("10.0.0.1", None, raw)
        /\ pipe' = IF \E a \in arrived' : a.via = "leader"
                   THEN Started(NewRun(pipe.env, AskRequestParse(raw).input, now))
                   ELSE pipe

\* the run has returned or thrown: the cache store and the awaiting handlers
AskSettle ==
    /\ pipe.pc \in { "done", "failed" }
    /\ \E r \in DOMAIN runs : PipelineSettles(r, OutcomeOf(pipe, now))
    /\ pipe' = [ pipe EXCEPT !.pc = "idle" ]

AskTick == pipe.pc \notin { "done", "failed" } /\ Tick

NextAsk == AskArrive \/ AskSettle \/ AskTick \/ PipeStep

SpecAsk == InitAsk /\ [][NextAsk]_vars

----------------------------------------------------------------------------
\* Claims about a request and its run together (SpecAsk)

\* the responses of the last turn to the handlers that awaited a run
Awaited == { r \in out : r.via \in { "leader", "follower" } }

\* C35: when the follow-up call settles the run returns, whatever the call
\* did, with the answer composed before and its citations; when the call
\* threw or gave no usable item the follow-ups are the heuristic ones. The
\* handlers that awaited the run answer 200 with that answer, those
\* citations and those follow-ups, and the result is stored under the run's
\* key for 30 s.
C35_Step ==
    /\ pipe.pc = "followUps" /\ pipe' # pipe
       => /\ pipe'.pc = "done"
          /\ pipe'.response.status = 200
          /\ pipe'.response.answer = pipe.answer
          /\ pipe'.response.citations = CitationsOf(pipe.answer, pipe.sources)
          /\ pipe'.response.followUps # BuildHeuristicFollowUps(pipe.input)
             => \A outcome \in { Throws(502, "LLM request failed"),
                                  Succeeds([ lines |-> << >>, json |-> {} ]) } :
                   ~FollowUpsSettle(outcome)
    /\ /\ pipe.pc = "done"
       /\ pipe' # pipe
       /\ LlmCalls(pipe, "followUps") # << >>
       => \A r \in DOMAIN runs :
             /\ r \notin DOMAIN runs'
             /\ MapHas(askCache', runs[r].key)
             /\ \A i \in Waiters(r) :
                   \E o \in out' :
                       /\ o.rid = i
                       /\ o.status = 200
                       /\ o.body.value.answer = pipe.response.answer
                       /\ o.body.value.citations = pipe.response.citations
                       /\ o.body.value.followUps = pipe.response.followUps
                       /\ MapGet(askCache', runs[r].key) =
                             [ value |-> o.body.value,
                               expiresAtMs |-> now + AskCacheTtlMs ]

C35_FollowUpFailureStillAnswers == [][C35_Step]_vars

\* a run whose follow-up call gave nothing usable has just answered its
\* leader and a follower with the cited answer and the heuristic follow-ups,
\* and the cache holds that result
C35_Witness ==
    /\ pipe.pc = "idle"
    /\ LlmCalls(pipe, "followUps") # << >>
    /\ pipe.response.citations # << >>
    /\ \E l \in Awaited, f \in Awaited :
          /\ l.via = "leader" /\ f.via = "follower"
          /\ l.status = 200 /\ f.status = 200
          /\ l.body.value.followUps = BuildHeuristicFollowUps(pipe.input)
          /\ f.body.value = l.body.value
          /\ MapGet(askCache, KeyOfRec(l)).value = l.body.value

\* C39: the result of a shortcut (local clock or policy refusal) is stored for
\* 30 s like any result; a request with the same key that arrives while the
\* entry is live starts no run and is answered with the stored response as it
\* is: the instant of a stored local-clock answer is that of the run that
\* made it, less than 30 s before the request, and so is its latencyMs.
C39_Step ==
    LET IsShortcut(value) == value.model[1] \in { "local-clock", "policy" }
    IN /\ \A l \in out' :
             l.via = "leader" /\ l.status = 200 /\ IsShortcut(l.body.value)
             => /\ l.body.value.clockMs
                     = IF l.body.value.model = << "local-clock" >> THEN now ELSE 0
                /\ l.body.value.latencyMs = 0
                /\ MapHas(askCache', KeyOfRec(l))
                /\ MapGet(askCache', KeyOfRec(l))
                     = [ value |-> l.body.value, expiresAtMs |-> now + AskCacheTtlMs ]
       /\ \A a \in arrived' :
             LET key == KeyOfRec(a) IN
             /\ a.next
             /\ MapHas(askCache, key)
             /\ IsShortcut(MapGet(askCache, key).value)
             /\ now < MapGet(askCache, key).expiresAtMs
             => LET stored == MapGet(askCache, key).value
                IN /\ a.via = "cache"
                   /\ runs' = runs
                   /\ pipe' = pipe
                   /\ \E r \in out' :
                         /\ r.rid = a.rid /\ r.status = 200
                         /\ r.body.value = stored
                   /\ stored.latencyMs = 0
                   /\ stored.model = << "local-clock" >>
                      => /\ stored.clockMs = MapGet(askCache, key).expiresAtMs - AskCacheTtlMs
                         /\ now - stored.clockMs < AskCacheTtlMs

C39_ShortcutsCached == [][C39_Step]_vars

\* a request is answered with a local-clock answer made 15 s before it
C39_Witness ==
    \E r \in out :
        /\ r.via = "cache"
        /\ r.body.value.model = << "local-clock" >>
        /\ r.body.value.clockMs = now - 15000

\* C40: when the strict re-call throws, askPipeline throws that error and
\* has issued no call after the re-call; the handlers that awaited the run
\* answer with the error, not with the first answer, and the cache is left as
\* it was, with nothing to serve for the run's key.
C40_Step ==
    /\ \A outcome \in { Throws(502, "LLM request failed") } :
          StrictSettles(outcome)
          => /\ pipe'.pc = "failed"
             /\ pipe'.response.status = outcome.error.status
             /\ pipe'.response.message = outcome.error.message
             /\ pipe'.response.answer = << >>
             /\ pipe'.calls = pipe.calls
             /\ LlmCalls(pipe', "followUps") = << >>
    /\ /\ pipe.pc = "failed"
       /\ LlmCalls(pipe, "strict") # << >>
       /\ pipe' # pipe
       => /\ askCache' = askCache
          /\ \A r \in DOMAIN runs :
                /\ r \notin DOMAIN runs'
                /\ CacheLookup(askCache', runs[r].key, now) = {}
                /\ \A i \in Waiters(r) :
                      \E o \in out' :
                          /\ o.rid = i
                          /\ o.status = pipe.response.status
                          /\ o.body.value = None
                          /\ o.body.message = ErrorResponse(pipe.response, i, nodeEnv).body.message

C40_StrictFailureFailsRequest == [][C40_Step]_vars

\* the strict re-call of a run has thrown and its leader and a follower have
\* just been answered 502
C40_Witness ==
    /\ pipe.pc = "idle"
    /\ LlmCalls(pipe, "strict") # << >>
    /\ LlmCalls(pipe, "followUps") = << >>
    /\ pipe.response.status = 502
    /\ askCache = << >>
    /\ \E l \in Awaited, f \in Awaited :
          /\ l.via = "leader" /\ f.via = "follower"
          /\ l.status = 502 /\ f.status = 502
====
